---- MODULE Spec2Model ----
(***************************************************************************)
(* Design-space mapping engine of spacemap: the Sample Store               *)
(* (utilities/data_collection.py), the Mapping Orchestrator (mapping.py),  *)
(* the random-restart Sampler (samplers/random_lumopt.py) and the Study    *)
(* session (studies/lumerical_study/lumerical_fdtd_study.py).              *)
(*                                                                         *)
(* Python values are encoded as records [t, v]: t is the Python type and   *)
(* v a sequence of integers.  Store indices are Python's (0-based); the    *)
(* Sample at index i is sample[i + 1].                                     *)
(***************************************************************************)
EXTENDS Integers, Sequences, FiniteSets, TLC

VARIABLES
    sample,             \* DataCollection.sample: the list of Samples
    sample_num,         \* DataCollection.sample_num
    maps,               \* SpaceMapping._maps
    fom_name,           \* Study.fom_name, the active objective name
    geom,               \* Study.geometry.parameters
    autosave,           \* SpaceMapping.set.autosave
    sampler_type,       \* settings.sampler.type
    simulator_restart,  \* Study._simulator_restart
    service,            \* SpaceMapping._service (counters, training index, file naming)
    files,              \* the .pkl names that exist in the working folder
    dr,                 \* the Reduction Model
    rs,                 \* the frame of a run_sampling call in progress
    sw,                 \* the frame of a subspace_sweep call in progress
    smp,                \* RandomLumopt: counters, records and the frame of run
    sim_open,           \* Study._sim_initialized
    fdtd,               \* Study.sim.fdtd exists: the Study's simulator session
    disk,               \* the project file a caller names in save_data and load_data
    held,               \* the objects SpaceMapping.study and SpaceMapping.sampler hold
    last                \* the last completed call: its arguments and what it returned

vars == <<sample, sample_num, maps, fom_name, geom, autosave, sampler_type,
          simulator_restart, service, files, dr, rs, sw, smp, sim_open, fdtd,
          disk, held, last>>

(***************************************************************************)
(* Bounds of the model.                                                    *)
(***************************************************************************)
MaxSamples == 3         \* Samples the store may hold
MaxGrid == 2            \* points of a sweep grid
MaxMaps == 1            \* Maps the orchestrator may hold
MaxCalls == 8           \* consecutive failing Sampler calls followed in one run_sampling
MaxResults == 1         \* largest max_results passed to a sampling run
MaxIter == 1            \* largest finite max_iter passed to a sampling run
MaxRecords == 2         \* records the Sampler may hold
MaxSteps == 7           \* loop iterations followed inside one RandomLumopt.run
MaxBatch == 2           \* (parameters, result) pairs one Sampler call returns
MaxStore == 2           \* Samples the store may hold when every operation is mixed
MaxFiles == 3           \* project files followed in the working folder

(***************************************************************************)
(* Program constants.                                                      *)
(***************************************************************************)
ErrorBudget == 6        \* "error_num < 6", "error_flag < 6"
None == -1              \* Python's None where an index or a count is expected
Inf == 99               \* np.Inf, the default max_iter

(***************************************************************************)
(* Python values.                                                          *)
(***************************************************************************)
PyFalse == [t |-> "bool", v |-> <<0>>]
Num(x) == [t |-> "num", v |-> <<x>>]
List(s) == [t |-> "list", v |-> s]
RaisedInit == [t |-> "raise", v |-> <<0>>]   \* raised while the session opens
RaisedRun == [t |-> "raise", v |-> <<1>>]    \* raised by the simulation itself
RaisedAttr == [t |-> "raise", v |-> <<2>>]   \* self.study is not a Study
RaisedBuild == [t |-> "raise", v |-> <<3>>]  \* raised while the open session is set up

\* The comparison as an identity test ("res is not False"), under which the
\* number 0 passes.
NeFalseByIdentity(res) == ~(res.t = "bool" /\ res.v = <<0>>)

\* "res != False" (mapping.py:158, 209): a list is never equal to False, a
\* number is equal to False exactly when it is 0.
NeFalse(res) ==
    CASE res.t = "bool" -> res.v # <<0>>
      [] res.t = "num" -> res.v[1] # 0
      [] OTHER -> TRUE

\* "res == False" (mapping.py:276)
EqFalse(res) == ~NeFalse(res)

\* "res is not False" (mapping.py:166)
IsNotFalse(res) == ~(res.t = "bool" /\ res.v = <<0>>)

\* A name is a string object: its text, and whether it is the interned object
\* of a string literal (the default 'fom', a literal in the caller's code) or
\* an object built while the program runs (a slice of a csv row), which is
\* identical to no other object.
Interned(text) == [text |-> text, interned |-> TRUE]
Built(text) == [text |-> text, interned |-> FALSE]

\* "a == b" and "a is b" on two names.
PyEq(a, b) == a.text = b.text
PyIs(a, b) == a.text = b.text /\ a.interned /\ b.interned

\* A parameter vector is a sequence of integers; the empty sequence stands for
\* param=None ("np.array(param == None).any()").
NoParam == << >>
Params == {<<0>>, <<1>>}

\* What one call of Study.run can produce: the failure sentinel, a number, a
\* list of numbers, or an exception.
EvalResults == {PyFalse, Num(0), Num(1), List(<<1>>)}
EvalOutcomes == EvalResults \cup {RaisedInit, RaisedRun}

(***************************************************************************)
(* Sample Store                                                            *)
(***************************************************************************)
\* Sample.__init__: the result is stored as a list.
WrapResult(result) ==
    CASE result.t = "list" -> result
      [] result.t = "num" -> [t |-> "list", v |-> result.v]
      [] result.t = "bool" -> [t |-> "list_of_bool", v |-> result.v]
      [] OTHER -> [t |-> "list_of_" \o result.t, v |-> result.v]

Sample(parameters, simulation_name, result, result_name) ==
    [parameters |-> parameters,
     parameters_size |-> Len(parameters),
     simulation_name |-> simulation_name,
     result |-> WrapResult(result),
     result_size |-> IF result.t = "list" THEN Len(result.v) ELSE 1,
     result_name |-> result_name]

\* The new Sample put in front of the list instead of at its end.
AddSampleStoreInFront(s, parameters, simulation_name, result, result_name) ==
    <<Sample(parameters, simulation_name, result, result_name)>> \o s

\* DataCollection.add_sample: the store after the call and the returned index.
AddSampleStore(s, parameters, simulation_name, result, result_name) ==
    Append(s, Sample(parameters, simulation_name, result, result_name))

\* The returned index counted from one.
AddSampleIndexFromOne(s, parameters, simulation_name, result, result_name) ==
    Len(AddSampleStore(s, parameters, simulation_name, result, result_name))

AddSampleIndex(s, parameters, simulation_name, result, result_name) ==
    Len(AddSampleStore(s, parameters, simulation_name, result, result_name)) - 1

\* The comparison of is_sample made against the stage tag instead of the
\* objective name.
IsSampleMatchByStage(s, i, parameters, result_name) ==
    /\ Len(parameters) = s[i + 1].parameters_size
    /\ s[i + 1].parameters = parameters
    /\ s[i + 1].simulation_name = result_name.text

\* DataCollection.is_sample: the indices the scan accepts, and its answer.
IsSampleMatch(s, i, parameters, result_name) ==
    /\ Len(parameters) = s[i + 1].parameters_size
    /\ s[i + 1].parameters = parameters
    /\ PyIs(s[i + 1].result_name, result_name)

IsSampleHits(s, n, parameters, result_name) ==
    {i \in 0 .. (n - 1) : IsSampleMatch(s, i, parameters, result_name)}

SetMin(S) == CHOOSE x \in S : \A y \in S : x <= y

IsSample(s, n, parameters, result_name) ==
    LET hits == IsSampleHits(s, n, parameters, result_name)
    IN  IF hits = {} THEN [found |-> FALSE, idx |-> None]
        ELSE [found |-> TRUE, idx |-> SetMin(hits)]

\* "stage in simulation_name" (data_collection.py:130).  simulation_name is
\* None, a list of tags (membership) or one string (Python's substring test).
IsSubstring(a, b) ==
    \/ a = ""
    \/ \E k \in 1 .. (Len(b) - Len(a) + 1) : SubSeq(b, k, k + Len(a) - 1) = a

StageIn(stage, simulation_name) ==
    CASE simulation_name.t = "none" -> TRUE
      [] simulation_name.t = "str" -> IsSubstring(stage, simulation_name.v)
      [] OTHER -> stage \in simulation_name.v

\* np.array(sample.result[result_index]) as the set of numbers numpy compares
\* (False is 0; an array stored as the single element of the list is compared
\* element by element).
ResultValues(smpl, result_index) ==
    CASE smpl.result.t = "list_of_bool" -> {0}
      [] smpl.result.t = "list_of_array" ->
            {smpl.result.v[k] : k \in 1 .. Len(smpl.result.v)}
      [] OTHER -> {smpl.result.v[result_index + 1]}

\* The bounds as inclusive limits.
WithinBoundsInclusive(values, lb, ub) ==
    /\ (lb = None \/ \A x \in values : x >= lb)
    /\ (ub = None \/ \A x \in values : x <= ub)

\* data_collection.py:134-135, result_index an int; a bound is None or a number.
WithinBounds(values, lb, ub) ==
    /\ (lb = None \/ \A x \in values : x > lb)
    /\ (ub = None \/ \A x \in values : x < ub)

FilterAccepts(smpl, result_name, result_index, simulation_name, lb, ub) ==
    /\ PyEq(smpl.result_name, result_name)
    /\ StageIn(smpl.simulation_name, simulation_name)
    /\ WithinBounds(ResultValues(smpl, result_index), lb, ub)

\* DataCollection.filter_simulation: filtered_idx, in the order of the scan.
RECURSIVE FilterFrom(_, _, _, _, _, _, _, _)
FilterFrom(s, n, i, result_name, result_index, simulation_name, lb, ub) ==
    IF i >= n THEN << >>
    ELSE LET rest == FilterFrom(s, n, i + 1, result_name, result_index,
                                simulation_name, lb, ub)
         IN  IF FilterAccepts(s[i + 1], result_name, result_index, simulation_name, lb, ub)
             THEN <<i>> \o rest
             ELSE rest

FilterSimulation(s, n, result_name, result_index, simulation_name, lb, ub) ==
    FilterFrom(s, n, 0, result_name, result_index, simulation_name, lb, ub)

\* data_collection.py:129-132 with result_index a list.  The stored result is
\* a Python list (Sample.__init__), and "result[result_index]" with a list as
\* the index raises TypeError: the scan stops at the first Sample that passes
\* the name and stage tests, before any bound is looked at.
FilterReachesResult(smpl, result_name, simulation_name) ==
    /\ PyEq(smpl.result_name, result_name)
    /\ StageIn(smpl.simulation_name, simulation_name)

FilterSimulationOnList(s, n, result_name, simulation_name) ==
    [raised |-> \E i \in 0 .. n - 1 :
                    FilterReachesResult(s[i + 1], result_name, simulation_name),
     idx |-> << >>]

\* DataCollection.export_to_csv: one row per Sample.  A cell is a number or
\* the text the csv writer prints for anything else.
Cell(x) == [t |-> "num", v |-> x]
TextCell == [t |-> "text", v |-> 0]

ResultCells(result) ==
    CASE result.t = "list" -> [k \in 1 .. Len(result.v) |-> Cell(result.v[k])]
      [] OTHER -> <<TextCell>>

ExportRow(smpl) ==
    [simulation_name |-> smpl.simulation_name,
     result_name |-> smpl.result_name.text,
     cells |-> [k \in 1 .. Len(smpl.parameters) |-> Cell(smpl.parameters[k])]
               \o ResultCells(smpl.result)]

ExportToCsv(s, n) == [i \in 1 .. n |-> ExportRow(s[i])]

\* DataCollection.load_from_csv: np.float64 of the cells; a text cell raises.
Slice(cells, from, to) ==
    IF from > Len(cells) THEN << >>
    ELSE SubSeq(cells, from, IF to < Len(cells) THEN to ELSE Len(cells))

CellsParse(cells) == \A k \in 1 .. Len(cells) : cells[k].t = "num"

CellValues(cells) == [k \in 1 .. Len(cells) |-> cells[k].v]

RECURSIVE LoadFromCsv(_, _, _, _)
LoadFromCsv(s, rows, parameters_size, i) ==
    IF i > Len(rows) THEN [sample |-> s, raised |-> FALSE]
    ELSE LET params == Slice(rows[i].cells, 1, parameters_size)
             res == Slice(rows[i].cells, parameters_size + 1, Len(rows[i].cells))
         IN  IF ~CellsParse(params) \/ ~CellsParse(res)
             THEN [sample |-> s, raised |-> TRUE]
             ELSE LoadFromCsv(AddSampleStore(s, CellValues(params),
                                             rows[i].simulation_name,
                                             [t |-> "array", v |-> CellValues(res)],
                                             Built(rows[i].result_name)),
                              rows, parameters_size, i + 1)

(***************************************************************************)
(* The world the orchestrator's calls act on, as one record, so that a     *)
(* call made inside another call (subspace_sweep -> run_study -> save_data)*)
(* is the composition of their effects.                                    *)
(***************************************************************************)
World ==
    [sample |-> sample, sample_num |-> sample_num, geom |-> geom,
     service |-> service, files |-> files, sim_open |-> sim_open, fdtd |-> fdtd]

(***************************************************************************)
(* Study (LumericalFDTDStudy)                                              *)
(***************************************************************************)
\* Study.run(param) with the given outcome of the external simulator.
\* Returns the world after the call, the result and the used parameters.
StudyRun(w, param, outcome) ==
    LET newGeom == IF param # NoParam THEN param ELSE w.geom
    IN  IF outcome = RaisedBuild /\ ~w.sim_open
        THEN [w |-> [w EXCEPT !.fdtd = TRUE], res |-> outcome, used |-> w.geom]
        ELSE IF outcome = RaisedInit /\ ~w.sim_open
        THEN [w |-> w, res |-> outcome, used |-> w.geom]
        ELSE IF outcome.t = "raise"
        THEN [w |-> [w EXCEPT !.geom = newGeom, !.sim_open = TRUE, !.fdtd = TRUE],
              res |-> RaisedRun, used |-> newGeom]
        ELSE [w |-> [w EXCEPT !.geom = newGeom,
                              !.sim_open = ~simulator_restart,
                              !.fdtd = ~simulator_restart],
              res |-> outcome, used |-> newGeom]

(***************************************************************************)
(* SpaceMapping.save_data(file_name=None, csv=False): the name written.    *)
(* A .pkl name is the number n of "<suffix>_n.pkl", 0 for "<suffix>.pkl".  *)
(***************************************************************************)
\* A name after every name in use.
FreeNameAfterLast(fs) ==
    CHOOSE n \in 1 .. (Cardinality(fs) + 2) :
        (\A m \in fs : m < n) /\ (n = 1 \/ n - 1 \in fs)

FreeName(fs) ==
    CHOOSE n \in 1 .. (Cardinality(fs) + 1) :
        n \notin fs /\ \A m \in 1 .. (n - 1) : m \in fs

SaveData(w, override) ==
    LET target == w.service.current_file_name
        rename == target \in w.files
                  /\ (~override \/ ~w.service.new_name_generated)
        n == IF rename THEN FreeName(w.files) ELSE target
    IN  [w EXCEPT !.service.current_file_name = n,
                  !.service.new_name_generated = TRUE,
                  !.files = w.files \cup {n}]

\* The name "<suffix>_n.csv" ("<suffix>.csv" for 0) in the set of files.
CsvName(n) == 0 - (n + 1)

CsvNames(fs) == {n \in 0 .. Cardinality(fs) : CsvName(n) \in fs}

\* save_data(csv=True) without a file name (mapping.py:306-325, 361-362): the
\* same naming state, tested against the .csv files.
SaveDataCsv(w, override) ==
    LET target == w.service.current_file_name
        rename == CsvName(target) \in w.files
                  /\ (~override \/ ~w.service.new_name_generated)
        n == IF rename THEN FreeName(CsvNames(w.files)) ELSE target
    IN  [w EXCEPT !.service.current_file_name = n,
                  !.service.new_name_generated = TRUE,
                  !.files = w.files \cup {CsvName(n)}]

\* self.study is the Study that fom_name, geom and sim_open describe.
LiveStudy == [kind |-> "Study"]

\* self.sampler holds that same Study (mapping.py:63).
Shared == [kind |-> "shared"]

\* After construction.
Constructed == [study |-> LiveStudy, sampler |-> Shared]

(***************************************************************************)
(* SpaceMapping.run_study                                                  *)
(***************************************************************************)
\* The call as a function of the world, its arguments and the outcome the
\* evaluator would give if invoked.
RunStudy(w, param, name, force_run, outcome) ==
    LET look == IF param = NoParam
                THEN [found |-> FALSE, idx |-> 0]
                ELSE IsSample(w.sample, w.sample_num, param, fom_name)
        invoke == ~look.found \/ force_run
        run == StudyRun(w, param, outcome)
    IN  IF held.study # LiveStudy
        THEN [w |-> w, res |-> RaisedAttr, idx |-> 0, hit |-> FALSE,
              invoked |-> FALSE, raised |-> TRUE, inserted |-> FALSE]
        ELSE IF ~invoke
        THEN LET res == w.sample[look.idx + 1].result
                 w1 == IF autosave /\ IsNotFalse(res) THEN SaveData(w, TRUE) ELSE w
             IN  [w |-> w1, res |-> res, idx |-> look.idx, hit |-> look.found,
                  invoked |-> FALSE, raised |-> FALSE, inserted |-> FALSE]
        ELSE IF run.res.t = "raise"
        THEN [w |-> run.w, res |-> run.res, idx |-> look.idx, hit |-> look.found,
              invoked |-> TRUE, raised |-> TRUE, inserted |-> FALSE]
        ELSE LET ok == NeFalse(run.res)
                 s1 == IF ok
                       THEN AddSampleStore(run.w.sample, run.used, name, run.res, fom_name)
                       ELSE run.w.sample
                 idx == IF ok
                        THEN AddSampleIndex(run.w.sample, run.used, name, run.res, fom_name)
                        ELSE look.idx
                 w1 == [run.w EXCEPT !.sample = s1, !.sample_num = Len(s1)]
                 w2 == IF autosave /\ IsNotFalse(run.res) THEN SaveData(w1, TRUE) ELSE w1
             IN  [w |-> w2, res |-> run.res, idx |-> idx, hit |-> look.found,
                  invoked |-> TRUE, raised |-> FALSE, inserted |-> ok]

(***************************************************************************)
(* SpaceMapping.subspace_sweep                                             *)
(***************************************************************************)
\* The grids a call can sweep, with points in P.
GridsOver(P) == UNION {[1 .. n -> P] : n \in 0 .. MaxGrid}

\* The reduced-space grid that comes with a full-space grid of n points:
\* subspace_mesh inverts its reduced-space grid row by row (pca.py:229-233),
\* and a caller who passes the three grids passes them of one length.
\* A reduced-space grid with one point more than the full-space grid.
ProjectedGridOnePointMore(n) == [k \in 1 .. n + 1 |-> k]

ProjectedGrid(n) == [k \in 1 .. n |-> k]

\* The Reduction Model object of the orchestrator, self.dr: who holds it sees
\* the state it has now.
TheModel == [ref |-> "self.dr"]

\* The state of the Reduction Model a Map holds.
MapModel(map, model) == IF map.model = TheModel THEN model ELSE map.model

\* Map.__init__.  The Map holds the Reduction Model by reference (self.dr),
\* the other fields by value.
Map(training_data_idx, projected_grid, normalized_projected_grid, sim_idx) ==
    [model |-> TheModel,
     training_data_idx |-> training_data_idx,
     projected_grid |-> projected_grid,
     normalized_projected_grid |-> normalized_projected_grid,
     sim_idx |-> sim_idx]

\* What one pass of the loop body (mapping.py:273-278) leaves in the trace.
SweepEntry(r) ==
    [invoked |-> r.invoked, res |-> r.res, idx |-> r.idx]

\* "if res == False: raise", and an exception of run_study itself: both end
\* the loop in the except clause.
\* The loop stopping only on an exception, the sentinel check left out.
SweepAbortsOnRaise(r) == r.raised

SweepAborts(r) == r.raised \/ EqFalse(r.res)

\* mapping.py:265-268: the prompt is shown unless go is set, and any answer
\* but "y" ends the call.  The answer is "" when no prompt is shown.
Responses == {"y", "n", "Y", ""}

\* The prompt taken as declined only on the answer "n".
SweepDeclinedOnNo(go, response) == ~go /\ response = "n"

SweepDeclined(go, response) == ~go /\ response # "y"

\* mapping.py:293-296: the value returned once the Map is appended.
SweepReturn(ms) == IF autosave THEN Len(ms) - 1 ELSE None

(***************************************************************************)
(* SpaceMapping.run_sampling                                               *)
(***************************************************************************)
\* The loop condition (mapping.py:187-189).
SamplingContinues(svc, frame) ==
    /\ svc.sampler_iteration < frame.max_iter
    /\ svc.sampler_results_num < frame.max_results
    /\ frame.error_num < ErrorBudget

\* "error_num =+ 1" (mapping.py:198)
ErrorNumAfterError(error_num) == 1

\* The comparison of the return with the wrong strictness.
SamplingReturnOffByOne(svc, max_results) ==
    IF svc.sampler_results_num <= max_results THEN FALSE ELSE TRUE

\* The reset with the accepted counter left as it was.
SamplingResetIterationOnly(svc) ==
    [svc EXCEPT !.sampler_iteration = 0]

\* "if reset:" (mapping.py:179-181)
SamplingReset(svc) ==
    [svc EXCEPT !.sampler_iteration = 0, !.sampler_results_num = 0]

\* mapping.py:222-226
SamplingReturn(svc, max_results) ==
    IF svc.sampler_results_num < max_results THEN FALSE ELSE TRUE

\* mapping.py:207-211: the Samples of one Sampler call, added in order.
RECURSIVE AddBatch(_, _, _, _)
AddBatch(s, res, used_param, i) ==
    IF i > Len(res) THEN s
    ELSE AddBatch(AddSampleStore(s, used_param[i], "sampling", res[i], fom_name),
                  res, used_param, i + 1)

(***************************************************************************)
(* SpaceMapping.dimensionality_reduction and the Reduction Model           *)
(***************************************************************************)
RECURSIVE ParametersOf(_, _)
ParametersOf(s, idx) ==
    IF idx = << >> THEN << >>
    ELSE <<s[Head(idx) + 1].parameters>> \o ParametersOf(s, Tail(idx))

RECURSIVE SumOver(_, _)
SumOver(seq, k) == IF k = 0 THEN 0 ELSE seq[k] + SumOver(seq, k - 1)

Total(seq) == SumOver(seq, Len(seq))

Abs(x) == IF x < 0 THEN -x ELSE x

\* StandardScaler(with_std = False).fit: the mean of every feature.
Column(data, a) == [i \in 1 .. Len(data) |-> data[i][a]]
Mean(data, a) == Total(Column(data, a)) \div Len(data)
Centred(data, a) ==
    LET mean == Mean(data, a) IN [i \in 1 .. Len(data) |-> data[i][a] - mean]
Cross(data, a, b) ==
    LET ca == Centred(data, a)
        cb == Centred(data, b)
    IN  Total([i \in 1 .. Len(data) |-> ca[i] * cb[i]])
Spread(data, a) == Cross(data, a, a)
Spreads(data) == [a \in 1 .. Len(data[1]) |-> Spread(data, a)]
IsRoot(r, n, spread) == r * r * n = spread
Features(data) == 1 .. Len(data[1])

\* The batches on which the numbers are exact in integers: integer means,
\* uncorrelated axes of different spread, integer standard deviations.
Determined(data) ==
    /\ data # << >>
    /\ LET spreads == Spreads(data)
       IN  /\ \A a \in Features(data) :
                 /\ Total(Column(data, a)) % Len(data) = 0
                 /\ \E r \in 0 .. spreads[a] : IsRoot(r, Len(data), spreads[a])
           /\ \A a, b \in Features(data) :
                 a # b => Cross(data, a, b) = 0 /\ spreads[a] # spreads[b]

\* ndarray.std(axis=0) of the projected training data, axis by axis.
Std(data, a) ==
    LET spread == Spread(data, a)
    IN  CHOOSE r \in 0 .. spread : IsRoot(r, Len(data), spread)

\* PCA.components_: the features by decreasing spread, the first k of them.
AxisOrder(data) ==
    LET spreads == Spreads(data)
    IN  CHOOSE order \in [Features(data) -> Features(data)] :
            /\ \A a, b \in Features(data) : a # b => order[a] # order[b]
            /\ \A a, b \in Features(data) :
                  a < b => spreads[order[a]] >= spreads[order[b]]

\* An attribute of the Reduction Model: absent until assigned, then an object
\* in a state ("set" for data, "new" or "fitted" for the scaler and the PCA),
\* the batch it was computed from, for the PCA the number of components found
\* and the sign the library gave the axes, and the numbers fitting stores in
\* it (the scaler's mean_, the axes of the PCA's components_, the standard
\* deviations of the projected training data), empty where not computed.
Attr(state, data, components, sign) ==
    [state |-> state, data |-> data, components |-> components, sign |-> sign,
     num |-> << >>]
Absent == Attr("absent", << >>, 0, 1)

Means(data) == [a \in Features(data) |-> Mean(data, a)]
KeptAxes(data, k) == LET order == AxisOrder(data) IN [j \in 1 .. k |-> order[j]]
Stds(data, k) == LET order == AxisOrder(data) IN [j \in 1 .. k |-> Std(data, order[j])]
Fitted(attr, data, num) ==
    [attr EXCEPT !.num = IF Determined(data) THEN num ELSE << >>]

\* DimensionalityReductionPCA.__init__ with settings.n_components = n.
NewModel(n) ==
    [n_components |-> n, init_n_components |-> n, training_data |-> Absent,
     scaler |-> Absent, model |-> Absent, projected_training_data |-> Absent]

\* The model can project and invert: scaler and PCA are fitted.
Trained(m) ==
    /\ m.scaler.state = "fitted"
    /\ m.model.state = "fitted"
    /\ m.projected_training_data.state = "set"

Smaller(a, b) == IF a < b THEN a ELSE b

\* The count asked of the PCA as the configured one.
RequestedConfigured(model) == model.init_n_components

\* pca.py:264: PCA(n_components = self.n_components), the count in force.
Requested(model) == model.n_components

\* DimensionalityReductionPCA._run_pca, statement by statement.  The batch is
\* stored and a new scaler assigned before anything can fail; fitting the
\* scaler raises on an empty batch; PCA(n_components).fit_transform raises
\* when asked for more components than features and, asked for more than
\* samples, raises (scikit-learn 0.20 and later) or keeps as many components
\* as there are samples (earlier releases: clips).
TrainModel(model, training_data, clips, sign) ==
    LET n_samples == Len(training_data)
        n_features == IF n_samples = 0 THEN 0 ELSE Len(training_data[1])
        m1 == [model EXCEPT !.training_data = Attr("set", training_data, 0, 1),
                            !.scaler = Attr("new", << >>, 0, 1)]
        m2 == [m1 EXCEPT !.scaler = Attr("fitted", training_data, 0, 1),
                         !.model = Attr("new", << >>, 0, 1)]
        found == Smaller(Requested(model), Smaller(n_samples, n_features))
    IN  IF n_samples = 0 THEN [dr |-> m1, raised |-> TRUE]
        ELSE IF \/ Requested(model) > n_features
                \/ (Requested(model) > n_samples /\ ~clips)
        THEN [dr |-> m2, raised |-> TRUE]
        ELSE [dr |-> [m2 EXCEPT
                        !.scaler = Fitted(@, training_data, Means(training_data)),
                        !.model = Fitted(Attr("fitted", training_data, found, sign),
                                         training_data,
                                         KeptAxes(training_data, found)),
                        !.projected_training_data =
                            Fitted(Attr("set", training_data, found, sign),
                                   training_data, Stds(training_data, found)),
                        !.n_components = found],
              raised |-> FALSE]

\* A reset that restores the configured count and deletes nothing.
ResetModelCountOnly(model) ==
    [dr |-> [model EXCEPT !.n_components = model.init_n_components],
     raised |-> FALSE]

\* DimensionalityReductionPCA._reset_pca: four del statements, each raising
\* AttributeError when the attribute does not exist, then the configured count.
ResetModel(model) ==
    LET m1 == [model EXCEPT !.training_data = Absent]
        m2 == [m1 EXCEPT !.scaler = Absent]
        m3 == [m2 EXCEPT !.model = Absent]
        m4 == [m3 EXCEPT !.projected_training_data = Absent]
    IN  IF model.training_data.state = "absent" THEN [dr |-> model, raised |-> TRUE]
        ELSE IF model.scaler.state = "absent" THEN [dr |-> m1, raised |-> TRUE]
        ELSE IF model.model.state = "absent" THEN [dr |-> m2, raised |-> TRUE]
        ELSE IF model.projected_training_data.state = "absent"
        THEN [dr |-> m3, raised |-> TRUE]
        ELSE [dr |-> [m4 EXCEPT !.n_components = model.init_n_components],
              raised |-> FALSE]

(***************************************************************************)
(* The numbers of the Reduction Model.  The scaler centres (settings.scale *)
(* is False, the default), and the PCA of a batch whose axes are           *)
(* uncorrelated keeps the axes themselves, by decreasing spread, each with *)
(* the sign the library gives it.  The operators below are exact for such  *)
(* batches (Determined), and the values are computed for them only.        *)
(***************************************************************************)
\* DimensionalityReductionPCA._project_pca on one vector:
\* model.transform(scaler.transform(data)).
ScalerTransform(m, v) == [a \in 1 .. Len(v) |-> v[a] - m.scaler.num[a]]
ScalerInverse(m, v) == [a \in 1 .. Len(v) |-> v[a] + m.scaler.num[a]]
ModelTransform(m, v) ==
    [j \in 1 .. m.model.components |-> m.model.sign * v[m.model.num[j]]]
ModelInverse(m, y) ==
    [a \in Features(m.model.data) |->
        IF \E j \in 1 .. Len(y) : m.model.num[j] = a
        THEN m.model.sign * y[CHOOSE j \in 1 .. Len(y) : m.model.num[j] = a]
        ELSE 0]

Raises == [raised |-> TRUE, value |-> << >>]
Returns(value) == [raised |-> FALSE, value |-> value]

\* project(data): self.model is looked up first, then the scaler transforms
\* (it must be fitted, on vectors of this length), then the PCA.
ProjectPca(m, v) ==
    IF \/ ~Trained(m)
       \/ Len(v) # Len(m.scaler.data[1])
    THEN Raises
    ELSE Returns(ModelTransform(m, ScalerTransform(m, v)))

\* The inversion with the two inverses applied in the order of the projection.
InvertPcaSameOrder(m, y) ==
    IF \/ ~Trained(m)
       \/ Len(y) # m.model.components
       \/ Len(y) # Len(m.scaler.data[1])
    THEN Raises
    ELSE Returns(ModelInverse(m, ScalerInverse(m, y)))

\* invert_model(data): scaler.inverse_transform(model.inverse_transform(data)).
InvertPca(m, y) ==
    IF \/ ~Trained(m)
       \/ Len(y) # m.model.components
    THEN Raises
    ELSE Returns(ScalerInverse(m, ModelInverse(m, y)))

(***************************************************************************)
(* DimensionalityReductionPCA.subspace_mesh.  An argument is None, a       *)
(* scalar, a Python list or a numpy array.                                 *)
(***************************************************************************)
\* The calls on a Reduction Model whose numbers are not modelled are left out.
Computable(m) == Trained(m) => m.model.num # << >>

NoArg == [t |-> "none", v |-> << >>]
Scalar(x) == [t |-> "scalar", v |-> <<x>>]
PyList(xs) == [t |-> "list", v |-> xs]
NdArray(xs) == [t |-> "array", v |-> xs]

\* "x == None" used as a condition: elementwise on an array, whose truth
\* value is an error unless it has one element.
EqNoneRaises(x) == x.t = "array" /\ Len(x.v) > 1

\* np.ones(n_components) * x, and the one-element array: the value for every
\* axis; a list of another length cannot be broadcast.
Broadcasts(x, n) == Len(x.v) = 1 \/ Len(x.v) = n
PerAxis(x, n) == [i \in 1 .. n |-> IF Len(x.v) = 1 THEN x.v[1] ELSE x.v[i]]

\* ceil(a / b) for a >= 0, b > 0.
CeilDiv(a, b) == (a + b - 1) \div b

\* The boundaries: the given pair of lists, or five standard deviations of
\* the projected training data either side of its mean (zero).
LowerBound(m, boundaries, i) ==
    IF boundaries.t = "none"
    THEN -5 * m.projected_training_data.num[i]
    ELSE boundaries.v[1][i]
UpperBound(m, boundaries, i) ==
    IF boundaries.t = "none"
    THEN 5 * m.projected_training_data.num[i]
    ELSE boundaries.v[2][i]

\* ab_dist: the Manhattan distance between the inverted boundary points of
\* axis i, every other reduced coordinate zero.
AbDist(m, boundaries, i) ==
    LET point(x) == InvertPca(m, [j \in 1 .. m.n_components |->
                                    IF j = i THEN x ELSE 0]).value
        point_a == point(LowerBound(m, boundaries, i))
        point_b == point(UpperBound(m, boundaries, i))
    IN  Total([a \in 1 .. Len(point_a) |-> Abs(point_a[a] - point_b[a])])

\* The points of axis i: found from the distance, or as given.
AxisPoints(m, n_points, distance, boundaries, i) ==
    IF n_points.t = "none"
    THEN CeilDiv(AbDist(m, boundaries, i), PerAxis(distance, m.n_components)[i]) + 1
    ELSE PerAxis(n_points, m.n_components)[i]

\* The distance of axis i, as the fraction num / den: as given, or found
\* from the number of points.
AxisDistance(m, n_points, distance, boundaries, i) ==
    IF n_points.t = "none"
    THEN [num |-> PerAxis(distance, m.n_components)[i], den |-> 1]
    ELSE [num |-> AbDist(m, boundaries, i),
          den |-> PerAxis(n_points, m.n_components)[i] - 1]

\* "samp[1]" on an axis: an error when the axis has exactly one point.
MeshAxisFails(points) == points = 1

\* A number that need not be whole, as the fraction num / den (den = 0: the
\* result of a division by zero).
Frac(num, den) == [num |-> num, den |-> den]

\* np.linspace(lb, ub, n), for n >= 2: n values from lb to ub, evenly spaced.
Linspace(lb, ub, n) ==
    [k \in 1 .. n |-> Frac(lb * (n - 1) + (k - 1) * (ub - lb), n - 1)]

\* pca.py:221-223: samp / (samp[1] - samp[0]) * dist_vector[i].
NormalizedSamples(lb, ub, n, dist) ==
    LET samp == Linspace(lb, ub, n)
    IN  [k \in 1 .. n |-> Frac(samp[k].num * dist.num, (ub - lb) * dist.den)]

\* The product with the first list varying fastest.
RECURSIVE ProductFirstFastest(_)
ProductFirstFastest(lists) ==
    IF lists = << >> THEN << << >> >>
    ELSE LET rest == ProductFirstFastest(Tail(lists))
             head == Head(lists)
         IN  [p \in 1 .. (Len(head) * Len(rest)) |->
                 <<head[((p - 1) % Len(head)) + 1]>>
                 \o rest[((p - 1) \div Len(head)) + 1]]

\* list(itertools.product(*lists)): the tuples in the order of nested loops,
\* the first list in the outermost loop.
RECURSIVE Product(_)
Product(lists) ==
    IF lists = << >> THEN << << >> >>
    ELSE LET rest == Product(Tail(lists))
             head == Head(lists)
         IN  [p \in 1 .. (Len(head) * Len(rest)) |->
                 <<head[((p - 1) \div Len(rest)) + 1]>>
                 \o rest[((p - 1) % Len(rest)) + 1]]

\* invert_model on one reduced point whose coordinates are fractions: the
\* PCA's inverse puts each coordinate on its axis with its sign (zero
\* elsewhere), the scaler's adds the mean.
InvertPoint(m, y) ==
    [a \in Features(m.model.data) |->
        IF \E j \in 1 .. Len(y) : m.model.num[j] = a
        THEN LET c == y[CHOOSE j \in 1 .. Len(y) : m.model.num[j] = a]
             IN  Frac(m.model.sign * c.num + m.scaler.num[a] * c.den, c.den)
        ELSE Frac(m.scaler.num[a], 1)]

NoMesh == [raised |-> TRUE, n_points_vector |-> << >>, dist_vector |-> << >>,
           ab_dist |-> << >>, lists |-> << >>, lists_normalized |-> << >>,
           grid |-> << >>, projected_grid |-> << >>,
           normalized_projected_grid |-> << >>]

\* subspace_mesh(distance, n_points, boundaries): what it returns, by the
\* number of points and the distance of every axis.
SubspaceMesh(m, distance, n_points, boundaries) ==
    IF \/ EqNoneRaises(n_points)
       \/ n_points.t = "none" /\ (EqNoneRaises(distance) \/ distance.t = "none")
       \/ n_points.t = "none" /\ ~Broadcasts(distance, m.n_components)
       \/ n_points.t # "none" /\ ~Broadcasts(n_points, m.n_components)
       \/ boundaries.t = "none" /\ m.projected_training_data.state = "absent"
       \/ ~Trained(m)
    THEN NoMesh
    ELSE LET axes == 1 .. m.n_components
             points == [i \in axes |-> AxisPoints(m, n_points, distance, boundaries, i)]
         IN  IF \E i \in axes : MeshAxisFails(points[i])
             THEN NoMesh
             ELSE LET dist == [i \in axes |->
                              AxisDistance(m, n_points, distance, boundaries, i)]
                      lb(i) == LowerBound(m, boundaries, i)
                      ub(i) == UpperBound(m, boundaries, i)
                      lists == [i \in axes |-> Linspace(lb(i), ub(i), points[i])]
                      normalized == [i \in axes |->
                          NormalizedSamples(lb(i), ub(i), points[i], dist[i])]
                      projected == Product(lists)
                  IN  [raised |-> FALSE, n_points_vector |-> points,
                       dist_vector |-> dist,
                       ab_dist |-> [i \in axes |-> AbDist(m, boundaries, i)],
                       lists |-> lists, lists_normalized |-> normalized,
                       grid |-> [k \in 1 .. Len(projected) |->
                                    InvertPoint(m, projected[k])],
                       projected_grid |-> projected,
                       normalized_projected_grid |-> Product(normalized)]

(***************************************************************************)
(* SpaceMapping.save_data and load_data on a file the caller names.  The   *)
(* file is a sequence of sections, each the pickle of one object; at_save  *)
(* keeps, beside it, the values the orchestrator had when it was written.  *)
(***************************************************************************)
NoFile == [exists |-> FALSE, sections |-> << >>, at_save |-> << >>]

\* The maps as the property computes them, not as they are stored.
DumpedMapsComputed(ms, s) ==
    [k \in 1 .. Len(ms) |->
        [model |-> ms[k].model,
         training_parameters_idx |-> ms[k].training_data_idx,
         grid |-> ParametersOf(s, ms[k].sim_idx),
         projected_grid |-> ms[k].projected_grid,
         normalized_projected_grid |-> ms[k].normalized_projected_grid]]

\* mapping.py:348: the stored list _maps is written.
DumpedMaps(ms, s) == ms

\* What a dump that fails leaves in the file: nothing, or a fragment.
Fragment == [garbage |-> TRUE]

\* A Study with an open simulator session cannot be pickled; an object that
\* came out of a file can.
StudyDumps(h, open) == h.study # LiveStudy \/ ~open
SamplerDumps(h, open) == h.sampler # Shared \/ ~open

\* What dill.dump(self.study, f) and dill.dump(self.sampler, f) write.
StudyObject(h, study) == IF h.study = LiveStudy THEN study ELSE h.study
SamplerObject(h, study) == IF h.sampler = Shared THEN [sampler |-> study] ELSE h.sampler

\* mapping.py:339-360: the sections in the order they are written; a dump
\* that fails leaves nothing or a fragment.
SaveSections(set, data, model, counters, ms, study, sampler, ok1, ok2, partial) ==
    <<set, data, model, counters, DumpedMaps(ms, data.sample)>>
    \o (IF ok1 THEN <<study>> ELSE IF partial THEN <<Fragment>> ELSE << >>)
    \o (IF ok2 THEN <<sampler>> ELSE IF partial /\ ok1 THEN <<Fragment>> ELSE << >>)

\* A section that is a pickled Study.
IsStudySection(x) == "geom" \in DOMAIN x

\* The Maps out of their section: each holds a Reduction Model of its own,
\* in the state the pickled one had.
UnpickledMaps(ms, model) ==
    [k \in 1 .. Len(ms) |-> [ms[k] EXCEPT !.model = MapModel(ms[k], model)]]

\* A pickled string comes back as a new object.
UnpickledName(name) == Built(name.text)
UnpickledStore(data) ==
    [sample |-> [i \in 1 .. Len(data.sample) |->
                    [data.sample[i] EXCEPT !.result_name = UnpickledName(@)]],
     sample_num |-> data.sample_num]

\* mapping.py:376-379: the sixth object of the file, when there is one and it
\* loads, goes to self.study.
LoadsStudy(sections) == Len(sections) >= 6 /\ sections[6] # Fragment

\* mapping.py:380-383: the next object goes to self.sampler.  After a fragment
\* the position in the file is not defined: the next load fails, or finds
\* the object that follows (found).
LoadsSampler(sections, found) ==
    /\ Len(sections) >= 7
    /\ sections[7] # Fragment
    /\ sections[6] = Fragment => found

\* Nothing was loaded into the attribute.
NotLoaded == [loaded |-> FALSE]

(***************************************************************************)
(* Actions.  The program is single-threaded: a call starts only when no    *)
(* other call is in progress.                                              *)
(***************************************************************************)
Idle == ~rs.active /\ ~sw.active /\ ~smp.active

\* While a call that loops is in progress there is no last completed call.
Running == [op |-> "running"]

\* The world record written back to the variables.
SetWorld(w) ==
    /\ sample' = w.sample
    /\ sample_num' = w.sample_num
    /\ geom' = w.geom
    /\ service' = w.service
    /\ files' = w.files
    /\ sim_open' = w.sim_open
    /\ fdtd' = w.fdtd

Config == <<fom_name, autosave, sampler_type, simulator_restart>>

\* What the record of a run_study call keeps of the call before it, when that
\* was run_study with the same parameters and neither call forced the run.
Previous(param, force_run) ==
    IF last.op = "run_study" /\ last.param = param /\ ~last.force_run /\ ~force_run
    THEN [twice |-> TRUE, hit |-> last.hit, invoked |-> last.invoked,
          raised |-> last.raised, res |-> last.res, idx |-> last.idx]
    ELSE [twice |-> FALSE]

\* mapping.run_study(param, name, force_run)
DoRunStudy(f) ==
    /\ Idle
    /\ \E param \in f.params \cup {NoParam}, name \in f.tags,
          force_run \in BOOLEAN, outcome \in f.outcomes :
          LET r == RunStudy(World, param, name, force_run, outcome)
          IN  /\ Len(r.w.sample) <= f.cap
              /\ ~r.invoked => outcome = PyFalse
              /\ SetWorld(r.w)
              /\ last' = [op |-> "run_study", param |-> param,
                          force_run |-> force_run, outcome |-> outcome,
                          hit |-> r.hit, invoked |-> r.invoked, raised |-> r.raised,
                          res |-> r.res, idx |-> r.idx,
                          added |-> Len(r.w.sample) - Len(sample),
                          kept |-> SubSeq(r.w.sample, 1, Len(sample)) = sample,
                          prev |-> Previous(param, force_run)]
    /\ UNCHANGED <<disk, held, maps, Config, dr, rs, sw, smp>>

\* The record of a finished subspace_sweep call.
SweepDone(mesh, grid, go, response, raised, trace, ret, pre, pre_maps) ==
    [op |-> "subspace_sweep", mesh |-> mesh, grid |-> grid, go |-> go,
     response |-> response,
     raised |-> raised, trace |-> trace, ret |-> ret,
     pre |-> pre, pre_maps |-> pre_maps]

\* A sweep that makes up a distance when it is given none.
MeshArgumentsDefaulted(mesh) == [distance |-> Scalar(1), n_points |-> NoArg]

\* mapping.py:260: distance and n_points go to subspace_mesh as the caller
\* gave them: a distance, or neither.
MeshArguments(mesh) ==
    IF mesh = "distance" THEN [distance |-> Scalar(1), n_points |-> NoArg]
    ELSE [distance |-> NoArg, n_points |-> NoArg]

\* The call of dr.subspace_mesh raises (it is not made when a grid is given).
SweepMeshRaises(m, mesh) ==
    /\ mesh # "given"
    /\ SubspaceMesh(m, MeshArguments(mesh).distance, MeshArguments(mesh).n_points,
                    NoArg).raised

\* The ways a sweep gets its grid: given by the caller, or generated from a
\* distance, or generated with neither distance nor count.
Meshes == {"given", "distance", "none"}

\* mapping.subspace_sweep up to the loop: the grid is given, or generated by
\* dr.subspace_mesh (an error there ends the call); then the confirmation.
SweepCall(f) ==
    /\ Idle
    /\ Len(maps) < MaxMaps
    /\ \E grid \in GridsOver(f.params), mesh \in f.meshes,
          go \in BOOLEAN, response \in Responses :
          /\ sample_num + Len(grid) <= f.cap
          /\ go => response = ""
          /\ mesh # "given" => Computable(dr)
          /\ IF SweepMeshRaises(dr, mesh)
             THEN /\ grid = << >> /\ go
                  /\ last' = SweepDone(mesh, grid, go, response, TRUE, << >>, None,
                                        sample, Len(maps))
                  /\ sw' = sw
             ELSE IF SweepDeclined(go, response)
             THEN /\ last' = SweepDone(mesh, grid, go, response, FALSE, << >>, None,
                                        sample, Len(maps))
                  /\ sw' = sw
             ELSE /\ sw' = [active |-> TRUE, mesh |-> mesh, grid |-> grid, go |-> go,
                            response |-> response, k |-> 1,
                            projected_grid |-> ProjectedGrid(Len(grid)),
                            mapping_idx |-> << >>, trace |-> << >>,
                            pre |-> sample, pre_maps |-> Len(maps)]
                  /\ last' = Running
    /\ UNCHANGED <<disk, held, sample, sample_num, maps, geom, service, files, sim_open, fdtd,
                   Config, dr, rs, smp>>

\* One pass of the loop body: run_study on the next grid point.
SweepEval(f) ==
    /\ sw.active
    /\ sw.k <= Len(sw.grid)
    /\ \E outcome \in f.outcomes :
          LET r == RunStudy(World, sw.grid[sw.k], "sweeping", FALSE, outcome)
              trace == Append(sw.trace, SweepEntry(r))
          IN  /\ ~r.invoked => outcome = PyFalse
              /\ SetWorld(r.w)
              /\ IF SweepAborts(r)
                 THEN /\ sw' = [active |-> FALSE]
                      /\ last' = SweepDone(sw.mesh, sw.grid, sw.go, sw.response,
                                            FALSE, trace,
                                            None, sw.pre, sw.pre_maps)
                 ELSE /\ sw' = [sw EXCEPT !.k = sw.k + 1,
                                          !.mapping_idx = Append(sw.mapping_idx, r.idx),
                                          !.trace = trace]
                      /\ last' = last
    /\ UNCHANGED <<disk, held, maps, Config, dr, rs, smp>>

\* After the loop: the Map is appended, saved, and its index returned.
SweepFinish ==
    /\ sw.active
    /\ sw.k > Len(sw.grid)
    /\ LET map_obj == Map(service.dr_training_index, sw.projected_grid,
                          sw.projected_grid, sw.mapping_idx)
           ms == Append(maps, map_obj)
       IN  /\ maps' = ms
           /\ SetWorld(IF autosave THEN SaveData(World, TRUE) ELSE World)
           /\ last' = SweepDone(sw.mesh, sw.grid, sw.go, sw.response, FALSE,
                                 sw.trace,
                                 SweepReturn(ms), sw.pre, sw.pre_maps)
    /\ sw' = [active |-> FALSE]
    /\ UNCHANGED <<disk, held, Config, dr, rs, smp>>

\* What the Sampler's run() hands back to run_sampling (mapping.py:194): the
\* results and parameter vectors of one iteration, whether the refined result
\* is acceptable, and whether an error occurred.
BatchesOver(P, R) ==
    UNION {[res : [1 .. n -> R], used_param : [1 .. n -> P]] :
           n \in 0 .. MaxBatch}

SamplingDone(frame, raised, ret) ==
    [op |-> "run_sampling", max_results |-> frame.max_results,
     raised |-> raised, ret |-> ret, reset |-> frame.reset,
     pairs |-> frame.pairs, pre_num |-> frame.pre_num]

\* mapping.run_sampling(max_results, reset, max_iter) up to the loop
RunSamplingCall(f) ==
    /\ Idle
    /\ \E max_results \in f.max_results, reset \in BOOLEAN,
          max_iter \in f.max_iter :
          /\ service' = IF reset THEN SamplingReset(service) ELSE service
          /\ rs' = [active |-> TRUE, max_results |-> max_results, reset |-> reset,
                    max_iter |-> max_iter, error_num |-> 0, calls |-> 0,
                    pairs |-> << >>, pre_num |-> sample_num]
    /\ last' = Running
    /\ UNCHANGED <<disk, held, sample, sample_num, maps, geom, files, sim_open, fdtd, Config, dr,
                   sw, smp>>

\* One pass of the loop with the random-lumopt Sampler: RandomLumopt.run
\* requires max_results, so "self.sampler.run()" raises TypeError, which
\* run_sampling does not catch.
RunSamplingLumopt ==
    /\ rs.active
    /\ SamplingContinues(service, rs)
    /\ sampler_type = "random-lumopt"
    /\ rs' = [active |-> FALSE]
    /\ last' = SamplingDone(rs, TRUE, FALSE)
    /\ UNCHANGED <<disk, held, sample, sample_num, maps, geom, service, files, sim_open, fdtd,
                   Config, dr, sw, smp>>

\* One pass of the loop with a Sampler whose run() returns the four values.
\* rs.calls counts the calls that reported an error since the last call that
\* did not (or since the loop began).
RunSamplingIter(f) ==
    /\ rs.active
    /\ SamplingContinues(service, rs)
    /\ sampler_type # "random-lumopt"
    /\ rs.calls < MaxCalls
    /\ \E batch \in BatchesOver(f.params, f.batch), good_result \in BOOLEAN, error_flag \in BOOLEAN :
          LET s1 == AddBatch(sample, batch.res, batch.used_param, 1)
              svc1 == [service EXCEPT
                         !.sampler_iteration = service.sampler_iteration + 1,
                         !.sampler_results_num =
                             IF good_result THEN service.sampler_results_num + 1
                             ELSE service.sampler_results_num]
              w1 == IF error_flag THEN World
                    ELSE [World EXCEPT !.sample = s1, !.sample_num = Len(s1),
                                       !.service = svc1]
              w2 == IF autosave THEN SaveData(w1, TRUE) ELSE w1
          IN  /\ error_flag => (batch.res = << >> /\ ~good_result)
              /\ ~error_flag => service.sampler_iteration < MaxIter
              /\ Len(s1) <= f.cap
              /\ SetWorld(w2)
              /\ rs' = [rs EXCEPT
                          !.calls = IF error_flag THEN rs.calls + 1 ELSE 0,
                          !.error_num = IF error_flag
                                        THEN ErrorNumAfterError(rs.error_num) ELSE 0,
                          !.pairs = IF error_flag THEN rs.pairs
                                    ELSE rs.pairs \o
                                         [k \in 1 .. Len(batch.res) |->
                                             <<batch.used_param[k], batch.res[k]>>]]
    /\ UNCHANGED <<disk, held, maps, Config, dr, sw, smp, last>>

\* The loop condition is false: the call returns.
RunSamplingReturn ==
    /\ rs.active
    /\ ~SamplingContinues(service, rs)
    /\ rs' = [active |-> FALSE]
    /\ last' = SamplingDone(rs, FALSE, SamplingReturn(service, rs.max_results))
    /\ UNCHANGED <<disk, held, sample, sample_num, maps, geom, service, files, sim_open, fdtd,
                   Config, dr, sw, smp>>

\* mapping.dimensionality_reduction(lower_bound, upper_bound)
DoDimensionalityReduction(f) ==
    /\ Idle
    /\ \E lb \in f.bounds, ub \in {None}, clips \in f.builds :
          LET idx == FilterSimulation(sample, sample_num, fom_name, 0,
                                      [t |-> "str", v |-> "sampling"], lb, ub)
              tr == TrainModel(dr, ParametersOf(sample, idx), clips, 1)
          IN  /\ service' = [service EXCEPT !.dr_training_index = idx]
              /\ dr' = tr.dr
              /\ last' = [op |-> "dimensionality_reduction", lb |-> lb,
                          ub |-> ub, raised |-> tr.raised]
    /\ UNCHANGED <<disk, held, sample, sample_num, maps, geom, files, sim_open, fdtd, Config,
                   rs, sw, smp>>

\* dr.train_model(training_data) called directly (train)
DoTrainModel(f) ==
    /\ Idle
    /\ \E training_data \in f.batches, clips \in f.builds, sign \in f.signs :
          LET tr == TrainModel(dr, training_data, clips, sign)
          IN  /\ dr' = tr.dr
              /\ last' = [op |-> "train_model", data |-> training_data,
                          raised |-> tr.raised, pre |-> dr]
    /\ UNCHANGED <<disk, held, sample, sample_num, maps, geom, service, files, sim_open, fdtd,
                   Config, rs, sw, smp>>

\* dr.reset_model() (reset)
DoResetModel ==
    /\ Idle
    /\ LET r == ResetModel(dr)
       IN  /\ dr' = r.dr
           /\ last' = [op |-> "reset_model", raised |-> r.raised, pre |-> dr]
    /\ UNCHANGED <<disk, held, sample, sample_num, maps, geom, service, files, sim_open, fdtd,
                   Config, rs, sw, smp>>

\* dr.project(data) on one vector
DoProject(f) ==
    /\ Idle
    /\ Computable(dr)
    /\ \E data \in f.vectors :
          LET r == ProjectPca(dr, data)
          IN  last' = [op |-> "project", data |-> data, raised |-> r.raised,
                       value |-> r.value, pre |-> dr]
    /\ UNCHANGED <<disk, held, sample, sample_num, maps, geom, service, files, sim_open, fdtd,
                   Config, dr, rs, sw, smp>>

\* The vector a projection just returned, which a caller can hand back.
Projected == IF last.op = "project" /\ ~last.raised THEN {last.value} ELSE {}

\* dr.invert_model(data) on one reduced vector: one of the caller's, or the
\* result of the projection just made (from: the vector that was projected).
DoInvert(f) ==
    /\ Idle
    /\ Computable(dr)
    /\ \E data \in f.reduced \cup Projected :
          LET r == InvertPca(dr, data)
          IN  last' = [op |-> "invert_model", data |-> data, raised |-> r.raised,
                       value |-> r.value, pre |-> dr,
                       from |-> IF data \in Projected THEN last.data ELSE NoParam]
    /\ UNCHANGED <<disk, held, sample, sample_num, maps, geom, service, files, sim_open, fdtd,
                   Config, dr, rs, sw, smp>>

\* dr.subspace_mesh(distance, n_points, boundaries).  The distance is not
\* looked at when n_points is given.
DoSubspaceMesh(f) ==
    /\ Idle
    /\ Computable(dr)
    /\ \E distance \in f.distances, n_points \in f.counts,
          boundaries \in f.boundaries :
          LET r == SubspaceMesh(dr, distance, n_points, boundaries)
          IN  /\ n_points # NoArg => distance = NoArg
              /\ last' = [op |-> "subspace_mesh", distance |-> distance,
                          n_points |-> n_points, boundaries |-> boundaries,
                          raised |-> r.raised,
                          n_points_vector |-> r.n_points_vector,
                          dist_vector |-> r.dist_vector, ab_dist |-> r.ab_dist,
                          lists |-> r.lists, lists_normalized |-> r.lists_normalized,
                          grid |-> r.grid, projected_grid |-> r.projected_grid,
                          normalized_projected_grid |-> r.normalized_projected_grid,
                          pre |-> dr]
    /\ UNCHANGED <<disk, held, sample, sample_num, maps, geom, service, files, sim_open, fdtd,
                   Config, dr, rs, sw, smp>>

\* The caller changes set.autosave.
DoSetAutosave ==
    /\ Idle
    /\ autosave' = ~autosave
    /\ last' = [op |-> "set_autosave"]
    /\ UNCHANGED <<disk, held, sample, sample_num, maps, fom_name, geom, sampler_type,
                   simulator_restart, service, files, dr, rs, sw, smp, sim_open, fdtd>>

\* save_data(override) without a file name: the name comes from the naming
\* state, and the sections are written.
DoSaveDefault ==
    /\ Idle
    /\ Cardinality(files) < MaxFiles
    /\ \E override \in BOOLEAN :
          LET w == SaveData(World, override)
          IN  /\ SetWorld(w)
              /\ last' = [op |-> "save_default", override |-> override,
                          name |-> w.service.current_file_name]
    /\ UNCHANGED <<disk, held, maps, Config, dr, rs, sw, smp>>

\* save_data(override, csv) without a file name, project file or csv export.
\* last.written are the files the orchestrator has written so far, and
\* last.existed says whether the file of this call was there before it.
DoSaveOrExport ==
    /\ Idle
    /\ Cardinality(files) < MaxFiles
    /\ \E override \in BOOLEAN, csv \in BOOLEAN :
          LET w == IF csv THEN SaveDataCsv(World, override) ELSE SaveData(World, override)
              n == w.service.current_file_name
              file == IF csv THEN CsvName(n) ELSE n
          IN  /\ SetWorld(w)
              /\ last' = [op |-> "save_data", override |-> override, csv |-> csv,
                          file |-> file, existed |-> file \in files,
                          own |-> file \in last.written,
                          written |-> last.written \cup {file}]
    /\ UNCHANGED <<disk, held, maps, Config, dr, rs, sw, smp>>

\* save_data(file_name, override) with a name of the caller's: an existing
\* file is written over when override is set or the caller answers 'y'.
DoSaveData ==
    /\ Idle
    /\ \E override \in BOOLEAN, response \in {"y", "n"}, partial \in BOOLEAN :
          LET flag_write == override \/ ~disk.exists \/ response = "y"
              data == [sample |-> sample, sample_num |-> sample_num]
              study == [fom_name |-> fom_name, geom |-> geom]
              study_ok == StudyDumps(held, fdtd)
              sampler_ok == SamplerDumps(held, fdtd)
          IN  /\ (override \/ ~disk.exists) => response = "y"
              /\ (study_ok /\ sampler_ok) => ~partial
              /\ disk' = IF flag_write
                         THEN [exists |-> TRUE,
                               sections |-> SaveSections([autosave |-> autosave], data,
                                                         dr, service, maps,
                                                         StudyObject(held, study),
                                                         SamplerObject(held, study),
                                                         study_ok, sampler_ok, partial),
                               at_save |-> [autosave |-> autosave, data |-> data,
                                            dr |-> dr, service |-> service,
                                            maps |-> maps, study_ok |-> study_ok,
                                            sampler_ok |-> sampler_ok,
                                            sampler |-> SamplerObject(held, study)]]
                         ELSE disk
              /\ last' = [op |-> "save_data", written |-> flag_write]
    /\ UNCHANGED <<sample, sample_num, maps, geom, service, files, sim_open, fdtd,
                   Config, dr, rs, sw, smp, held>>

\* load_data(file_name, override): the sections are read back in order, each
\* into its attribute; the Study is replaced when its section loads.  Loads
\* are followed while the autosave has written at most MaxMaps files.
DoLoadData ==
    /\ Idle
    /\ Cardinality(files) <= MaxMaps
    /\ \E override \in BOOLEAN, response \in {"y", "n"}, found \in BOOLEAN :
          LET go == override \/ response = "y"
              sec == disk.sections
              data == UnpickledStore(sec[2])
              loaded == go /\ disk.exists
              study == IF loaded /\ LoadsStudy(sec) THEN sec[6] ELSE NotLoaded
              sampler == IF loaded /\ LoadsSampler(sec, found) THEN sec[7]
                         ELSE NotLoaded
          IN  /\ override => response = "y"
              /\ found => (loaded /\ Len(sec) >= 7 /\ sec[6] = Fragment)
              /\ IF go /\ disk.exists
                 THEN /\ autosave' = sec[1].autosave
                      /\ sample' = data.sample
                      /\ sample_num' = data.sample_num
                      /\ dr' = sec[3]
                      /\ service' = sec[4]
                      /\ maps' = UnpickledMaps(sec[5], sec[3])
                      /\ IF study # NotLoaded /\ IsStudySection(study)
                         THEN /\ fom_name' = UnpickledName(study.fom_name)
                              /\ geom' = study.geom
                              /\ sim_open' = FALSE
                              /\ fdtd' = FALSE
                         ELSE UNCHANGED <<fom_name, geom, sim_open, fdtd>>
                      /\ held' = [study |-> IF study = NotLoaded THEN held.study
                                            ELSE IF IsStudySection(study) THEN LiveStudy
                                            ELSE study,
                                  sampler |-> IF sampler = NotLoaded THEN held.sampler
                                              ELSE sampler]
                 ELSE UNCHANGED <<autosave, sample, sample_num, dr, service, maps,
                                  fom_name, geom, sim_open, fdtd, held>>
              /\ last' = [op |-> "load_data", loaded |-> loaded,
                          raised |-> go /\ ~disk.exists,
                          study |-> study, sampler |-> sampler,
                          before |-> [sample_num |-> sample_num,
                                      maps |-> Len(maps), trained |-> Trained(dr),
                                      autosave |-> autosave, service |-> service,
                                      held |-> held]]
    /\ UNCHANGED <<disk, files, sampler_type, simulator_restart, rs, sw, smp>>

\* DataCollection.add_sample called directly (insert)
DoAddSample(f) ==
    /\ Idle
    /\ sample_num < f.cap
    /\ \E parameters \in f.params, stage \in f.stages, result \in f.results,
          result_name \in f.names :
          /\ sample' = AddSampleStore(sample, parameters, stage, result, result_name)
          /\ sample_num' = Len(sample')
          /\ last' = [op |-> "add_sample",
                      ret |-> AddSampleIndex(sample, parameters, stage, result,
                                             result_name)]
    /\ UNCHANGED <<disk, held, maps, geom, service, files, sim_open, fdtd, Config, dr, rs, sw, smp>>

\* DataCollection.is_sample called directly (find_exact)
DoIsSample(f) ==
    /\ Idle
    /\ \E parameters \in f.params, result_name \in f.names :
          LET look == IsSample(sample, sample_num, parameters, result_name)
          IN  last' = [op |-> "is_sample", parameters |-> parameters,
                       result_name |-> result_name,
                       found |-> look.found, idx |-> look.idx]
    /\ UNCHANGED <<disk, held, sample, sample_num, maps, geom, service, files, sim_open, fdtd,
                   Config, dr, rs, sw, smp>>

\* The bounds a caller passes with a result_index: one bound per side with an
\* int, one list per side with a list.
FilterBounds(f, result_index) ==
    IF result_index.t = "int"
    THEN {[lb |-> lb, ub |-> ub] : lb \in f.bounds, ub \in f.ubounds}
    ELSE f.bound_lists

\* DataCollection.filter_simulation called directly (filter)
DoFilter(f) ==
    /\ Idle
    /\ \E result_name \in f.names, result_index \in f.indices,
          stage_in \in f.stage_sets :
          \E b \in FilterBounds(f, result_index) :
             LET r == IF result_index.t = "int"
                      THEN [raised |-> FALSE,
                            idx |-> FilterSimulation(sample, sample_num, result_name,
                                                     result_index.v, stage_in,
                                                     b.lb, b.ub)]
                      ELSE FilterSimulationOnList(sample, sample_num, result_name,
                                                  stage_in)
             IN  last' = [op |-> "filter_simulation", result_name |-> result_name,
                          result_index |-> result_index, stage_in |-> stage_in,
                          lb |-> b.lb, ub |-> b.ub,
                          raised |-> r.raised, idx |-> r.idx]
    /\ UNCHANGED <<disk, held, sample, sample_num, maps, geom, service, files, sim_open, fdtd,
                   Config, dr, rs, sw, smp>>

\* DataCollection.export_to_csv
DoExportToCsv ==
    /\ Idle
    /\ last' = [op |-> "export_to_csv",
                rows |-> Len(ExportToCsv(sample, sample_num))]
    /\ UNCHANGED <<disk, held, sample, sample_num, maps, geom, service, files, sim_open, fdtd,
                   Config, dr, rs, sw, smp>>

\* DataCollection.load_from_csv (append_from_csv) of the store's own export
\* or of a file written elsewhere
DoLoadFromCsv(f) ==
    /\ Idle
    /\ \E rows \in {ExportToCsv(sample, sample_num)} \cup f.csv :
          LET r == LoadFromCsv(sample, rows, 1, 1)
          IN  /\ Len(r.sample) <= f.cap
              /\ rows # << >>
              /\ sample' = r.sample
              /\ sample_num' = Len(r.sample)
              /\ last' = [op |-> "load_from_csv", raised |-> r.raised]
    /\ UNCHANGED <<disk, held, maps, geom, service, files, sim_open, fdtd, Config, dr, rs, sw, smp>>

(***************************************************************************)
(* RandomLumopt.run, called on the Sampler directly                        *)
(***************************************************************************)
\* The loop condition letting the error counter reach the budget.
SamplerContinuesOffByOne(m) ==
    /\ m.iteration < m.max_iter
    /\ m.results_num < m.max_results
    /\ m.error_flag <= ErrorBudget

\* random_lumopt.py:139: the loop condition.
SamplerContinues(m) ==
    /\ m.iteration < m.max_iter
    /\ m.results_num < m.max_results
    /\ m.error_flag < ErrorBudget

\* The except clause leaving the error counter as it was.
SamplerFailsUncounted(m) == [m EXCEPT !.steps = m.steps + 1]

\* The except clause (random_lumopt.py:205-208).
SamplerFails(m) == [m EXCEPT !.error_flag = m.error_flag + 1, !.steps = m.steps + 1]

\* random_lumopt.py:200-203: the end of an iteration that raised nowhere.
SamplerAdvances(m, new_param) ==
    [m EXCEPT !.iteration = m.iteration + 1, !.error_flag = 0,
              !.new_param = new_param, !.steps = m.steps + 1]

\* The refined result counted whatever the local constraint answers.
SamplerRefinedAlwaysCounted(m, value, param, accepted) ==
    [m EXCEPT !.sampling_param = Append(m.sampling_param, param),
              !.sampling_res = Append(m.sampling_res, value),
              !.results_num = m.results_num + 1,
              !.ever_ok = TRUE]

\* random_lumopt.py:176-177, 186-187: the refined result is recorded and
\* counted if the local constraint accepts it.
SamplerRefined(m, value, param, accepted) ==
    [m EXCEPT !.sampling_param = Append(m.sampling_param, param),
              !.sampling_res = Append(m.sampling_res, value),
              !.results_num = IF accepted THEN m.results_num + 1 ELSE m.results_num,
              !.ever_ok = TRUE]

\* random_lumopt.py:147-148: the screening result is recorded.
SamplerScreened(m, value, param) ==
    [m EXCEPT !.sampling_param = Append(m.sampling_param, param),
              !.sampling_res = Append(m.sampling_res, value),
              !.ever_ok = TRUE]

\* What the screening simulation and the refiner can hand to the Sampler.
ScreenOutcomes == {PyFalse, Num(1), RaisedInit, RaisedRun}
RefinedParams == {<<1>>}
DrawnParams == {<<1>>}

\* A setting the caller left out, a sampling function that returns one of the
\* values, and bounds (lo, hi) on the one parameter.
NoSetting == [set |-> FALSE]
SampleFunction(values) == [set |-> TRUE, values |-> values]
ParametersBounds(lo, hi) == [set |-> TRUE, lo |-> lo, hi |-> hi]

\* random_lumopt.py:32-41: the bounds the Sampler keeps.  With a sampling
\* function in the settings the bounds are None; with neither function nor
\* bounds they are the Python list [(0, 1)] * parameters_size.
RandomLumoptBounds(settings) ==
    IF settings.global_sample_function.set THEN [t |-> "none"]
    ELSE IF settings.global_parameters_bounds.set
    THEN [t |-> "array", lo |-> settings.global_parameters_bounds.lo,
          hi |-> settings.global_parameters_bounds.hi]
    ELSE [t |-> "list", lo |-> 0, hi |-> 1]

\* random_lumopt.py:34, 43: what one call of the sampling function can return:
\* a value of the caller's function, or lo + (hi - lo) * rand with rand in
\* [0, 1).  Slicing the list of default bounds raises, so nothing is returned.
Proposals(m) ==
    IF m.settings.global_sample_function.set
    THEN m.settings.global_sample_function.values
    ELSE IF m.bounds.t = "array"
    THEN {<<x>> : x \in m.bounds.lo .. (m.bounds.hi - 1)}
    ELSE {}

\* random_lumopt.py:194-198: the test of a draw.
BoundsAccept(bounds, d) ==
    bounds.t = "none" \/ (bounds.lo < d[1] /\ d[1] < bounds.hi)

\* random_lumopt.py:190-198: the values the redraw loop can end with.
Redrawn(m) == {d \in Proposals(m) : BoundsAccept(m.bounds, d)}

\* The sampling function can raise: the caller's may, the default one does
\* when the bounds are the list.
DrawRaises(m) == m.settings.global_sample_function.set \/ m.bounds.t = "list"

\* What the last pass of the loop met: whether the screening simulation
\* raised, the answer of the global constraint, whether the refiner raised and
\* the answer of the local constraint.
NoPass == [screen |-> "none", accept |-> "none", refine |-> "none", local |-> TRUE]

\* One choice of inputs for each way through the loop body: what is never
\* consulted on the path taken is fixed (the constraint after a screening that
\* raised, the refiner after a rejection, the local constraint when none is
\* set or the refiner raised, the redraw after anything raised).
Chosen(screen_raised, accept, refine, local, draw) ==
    /\ screen_raised => accept = "no"
    /\ accept # "yes" => refine = "ok"
    /\ (accept # "yes" \/ refine = "raise" \/ ~smp.has_local) => local
    /\ (screen_raised \/ accept = "raise" \/ refine = "raise") => draw = NoParam
    /\ draw = NoParam =>
          (screen_raised \/ accept = "raise" \/ refine = "raise" \/ DrawRaises(smp))

\* Study.close_simulation: the session is closed when the Study has
\* finished opening one; the result is whether a session exists afterwards.
CloseSimulation(initialized, session) == IF initialized THEN FALSE ELSE session

\* export_to_csv(file_name): the rows are written to the file.
DoExportFile ==
    /\ Idle
    /\ disk' = [exists |-> TRUE, csv |-> ExportToCsv(sample, sample_num),
                of |-> sample]
    /\ last' = [op |-> "export_file", rows |-> sample_num]
    /\ UNCHANGED <<held, sample, sample_num, maps, geom, service, files, sim_open,
                   fdtd, Config, dr, rs, sw, smp>>

\* data = DataCollection(): the caller starts a store anew.
DoNewStore ==
    /\ Idle
    /\ sample' = << >>
    /\ sample_num' = 0
    /\ last' = [op |-> "new_store"]
    /\ UNCHANGED <<disk, held, maps, geom, service, files, sim_open, fdtd, Config,
                   dr, rs, sw, smp>>

\* load_from_csv(file_name, parameters_size) on the file export_to_csv wrote:
\* the rows read before one fails to parse stay in the store.
DoLoadFile(f) ==
    /\ Idle
    /\ disk.exists
    /\ \E parameters_size \in f.sizes :
          LET r == LoadFromCsv(sample, disk.csv, parameters_size, 1)
          IN  /\ Len(r.sample) <= f.cap
              /\ sample' = r.sample
              /\ sample_num' = Len(r.sample)
              /\ last' = [op |-> "load_file", raised |-> r.raised,
                          parameters_size |-> parameters_size,
                          into_empty |-> sample = << >>]
    /\ UNCHANGED <<disk, held, maps, geom, service, files, sim_open, fdtd, Config,
                   dr, rs, sw, smp>>

\* The caller closes the Study's session: study.close_simulation().
DoCloseSimulation ==
    /\ Idle
    /\ sim_open' = FALSE
    /\ fdtd' = CloseSimulation(sim_open, fdtd)
    /\ last' = [op |-> "close_simulation", raised |-> FALSE,
                before |-> [sim_open |-> sim_open, fdtd |-> fdtd]]
    /\ UNCHANGED <<disk, held, sample, sample_num, maps, geom, service, files,
                   Config, dr, rs, sw, smp>>

\* A reset that zeroes the counters and keeps the records.
SamplerResetCountersOnly(m) == [m EXCEPT !.iteration = 0, !.results_num = 0]

\* random_lumopt.py:125-129: "if reset_counter".
SamplerReset(m) ==
    [m EXCEPT !.iteration = 0, !.results_num = 0,
              !.sampling_param = << >>, !.sampling_res = << >>]

\* RandomLumopt.run(max_results, reset_counter, max_iter) up to the loop
SamplerCall ==
    /\ Idle
    /\ \E max_results \in 0 .. MaxResults, reset_counter \in BOOLEAN,
          max_iter \in (0 .. MaxIter) \cup {Inf} :
          LET m == IF reset_counter THEN SamplerReset(smp) ELSE smp
          IN  smp' = [m EXCEPT !.active = TRUE, !.max_results = max_results,
                               !.max_iter = max_iter, !.error_flag = 0,
                               !.new_param = NoParam, !.steps = 0,
                               !.pre_iteration = m.iteration, !.pass = NoPass,
                               !.reset_counter = reset_counter]
    /\ last' = Running
    /\ UNCHANGED <<disk, held, sample, sample_num, maps, geom, service, files, sim_open, fdtd,
                   Config, dr, rs, sw>>

\* One pass of the loop when a global constraint is set: the screening
\* simulation, the constraint, the refinement, the redraw.  Each may raise.
SamplerIterScreened(outcomes) ==
    /\ smp.active /\ SamplerContinues(smp) /\ smp.has_global
    /\ smp.steps < MaxSteps
    /\ \E outcome \in outcomes, accept \in {"yes", "no", "raise"},
          refine \in {"ok", "raise"}, refined \in RefinedParams, local \in BOOLEAN,
          draw \in Redrawn(smp) \cup {NoParam} :
          LET run == StudyRun(World, smp.new_param, outcome)
              m1 == SamplerScreened(smp, run.res, run.used)
              m2 == SamplerRefined(m1, Num(1), refined, ~smp.has_local \/ local)
              m3 == IF accept = "yes" THEN m2 ELSE m1
              m4 == IF draw = NoParam THEN SamplerFails(m3)
                    ELSE SamplerAdvances(m3, draw)
          IN  /\ Chosen(run.res.t = "raise", accept, refine, local, draw)
              /\ SetWorld(run.w)
              /\ smp' = [(IF run.res.t = "raise" THEN SamplerFails(smp)
                          ELSE IF accept = "raise" THEN SamplerFails(m1)
                          ELSE IF accept = "yes" /\ refine = "raise"
                          THEN SamplerFails(m1)
                          ELSE m4)
                         EXCEPT !.pass =
                             [screen |-> IF run.res.t = "raise" THEN "raise" ELSE "ok",
                              accept |-> accept, refine |-> refine, local |-> local]]
              /\ Len(smp'.sampling_res) <= MaxRecords
              /\ smp'.iteration <= MaxIter
    /\ UNCHANGED <<disk, held, maps, Config, dr, rs, sw, last>>

\* One pass of the loop when no global constraint is set: the geometry is
\* updated, then the refinement and the redraw.
SamplerIterDirect ==
    /\ smp.active /\ SamplerContinues(smp) /\ ~smp.has_global
    /\ smp.steps < MaxSteps
    /\ \E refine \in {"ok", "raise"}, refined \in RefinedParams, local \in BOOLEAN,
          draw \in Redrawn(smp) \cup {NoParam} :
          LET m2 == SamplerRefined(smp, Num(1), refined, ~smp.has_local \/ local)
              m4 == IF draw = NoParam THEN SamplerFails(m2)
                    ELSE SamplerAdvances(m2, draw)
          IN  /\ Chosen(FALSE, "yes", refine, local, draw)
              /\ geom' = IF smp.new_param # NoParam THEN smp.new_param ELSE geom
              /\ smp' = [(IF refine = "raise" THEN SamplerFails(smp) ELSE m4)
                         EXCEPT !.pass = [screen |-> "none", accept |-> "unset",
                                          refine |-> refine, local |-> local]]
              /\ Len(smp'.sampling_res) <= MaxRecords
              /\ smp'.iteration <= MaxIter
    /\ UNCHANGED <<disk, held, sample, sample_num, maps, service, files, sim_open, fdtd, Config,
                   dr, rs, sw, last>>

\* The loop condition is false: the Study is told to close its session and
\* run returns (sampling_res, sampling_param, results_num).
SamplerReturn ==
    /\ smp.active /\ ~SamplerContinues(smp)
    /\ sim_open' = FALSE
    /\ fdtd' = CloseSimulation(sim_open, fdtd)
    /\ smp' = [smp EXCEPT !.active = FALSE]
    /\ last' = [op |-> "sampler_run", max_results |-> smp.max_results,
                max_iter |-> smp.max_iter, steps |-> smp.steps,
                pre_iteration |-> smp.pre_iteration, ret |-> smp.results_num]
    /\ UNCHANGED <<disk, held, sample, sample_num, maps, geom, service, files, Config, dr, rs, sw>>

(***************************************************************************)
(* The orchestrator after SpaceMapping.__init__                            *)
(***************************************************************************)
InitService ==
    [sampler_iteration |-> 0, sampler_results_num |-> 0,
     dr_training_index |-> << >>, new_name_generated |-> FALSE,
     current_file_name |-> 0]

InitCommon ==
    /\ sample = << >>
    /\ sample_num = 0
    /\ maps = << >>
    /\ fom_name = Interned("fom")
    /\ geom = <<0>>
    /\ simulator_restart = TRUE
    /\ service = InitService
    /\ dr = NewModel(1)
    /\ rs = [active |-> FALSE]
    /\ sw = [active |-> FALSE]
    /\ smp = [active |-> FALSE]
    /\ sim_open = FALSE
    /\ fdtd = FALSE
    /\ disk = NoFile
    /\ held = Constructed
    /\ last = [op |-> "init"]

(***************************************************************************)
(* The inputs the calls are given.  Wide: the values used where one part   *)
(* of the orchestrator is explored on its own.  Narrow: the values used    *)
(* where every operation is mixed with every other.                        *)
(***************************************************************************)
Wide ==
    [params |-> Params, outcomes |-> EvalOutcomes, cap |-> MaxSamples,
     max_results |-> 0 .. MaxResults, max_iter |-> (0 .. MaxIter) \cup {Inf},
     bounds |-> {None, 0, 1}, tags |-> {"default"}, meshes |-> Meshes]

AnyStage == [t |-> "none", v |-> {}]
Stages(tags) == [t |-> "list", v |-> tags]
Component(k) == [t |-> "int", v |-> k]
Components(ks) == [t |-> "list", v |-> ks]

Narrow ==
    [params |-> {<<0>>}, outcomes |-> {PyFalse, Num(1)}, cap |-> MaxStore,
     batch |-> {Num(1)}, max_results |-> {1}, max_iter |-> {1},
     bounds |-> {None}, ubounds |-> {None}, bound_lists |-> {},
     stages |-> {"default"}, results |-> {Num(1)}, names |-> {Interned("fom")},
     indices |-> {Component(0)}, stage_sets |-> {AnyStage, Stages({"sampling"})},
     csv |-> {}, tags |-> {"default"}, builds |-> {FALSE}, meshes |-> Meshes]

\* The values used where the loop of run_sampling is explored: every
\* max_results and max_iter, one parameter vector.
Loop ==
    [params |-> {<<1>>}, outcomes |-> {PyFalse, Num(1)}, cap |-> MaxStore,
     batch |-> {Num(1), PyFalse},
     max_results |-> 0 .. MaxResults, max_iter |-> (0 .. MaxIter) \cup {Inf},
     bounds |-> {None}]

\* Every operation on one store.
Init ==
    /\ InitCommon
    /\ autosave = TRUE
    /\ sampler_type = "random-local"
    /\ files = {0}

Next ==
    \/ DoRunStudy(Narrow)
    \/ SweepCall(Narrow)
    \/ SweepEval(Narrow)
    \/ SweepFinish
    \/ RunSamplingCall(Narrow)
    \/ RunSamplingIter(Narrow)
    \/ RunSamplingReturn
    \/ DoDimensionalityReduction(Narrow)
    \/ DoAddSample(Narrow)
    \/ DoIsSample(Narrow)
    \/ DoFilter(Narrow)
    \/ DoExportToCsv
    \/ DoLoadFromCsv(Narrow)

Spec == Init /\ [][Next]_vars

\* run_study on its own, with and without autosave.
InitStudy ==
    /\ InitCommon
    /\ autosave \in BOOLEAN
    /\ sampler_type = "random-local"
    /\ files = {0}

NextStudy == DoRunStudy(Wide)

SpecStudy == InitStudy /\ [][NextStudy]_vars

\* subspace_sweep on its own, with and without autosave, on an empty store or
\* on the store one direct insert (data.add_sample) leaves.
InitSweep ==
    /\ sample \in {<< >>, <<Sample(<<0>>, "default", Num(1), Interned("fom"))>>}
    /\ sample_num = Len(sample)
    /\ maps = << >>
    /\ fom_name = Interned("fom")
    /\ geom = <<0>>
    /\ simulator_restart = TRUE
    /\ service = InitService
    /\ dr = NewModel(1)
    /\ rs = [active |-> FALSE]
    /\ sw = [active |-> FALSE]
    /\ smp = [active |-> FALSE]
    /\ sim_open = FALSE
    /\ fdtd = FALSE
    /\ disk = NoFile
    /\ held = Constructed
    /\ last = [op |-> "init"]
    /\ autosave \in BOOLEAN
    /\ sampler_type = "random-local"
    /\ files = {0}

NextSweep ==
    \/ SweepCall(Wide)
    \/ SweepEval(Wide)
    \/ SweepFinish

SpecSweep == InitSweep /\ [][NextSweep]_vars

\* run_sampling with a Sampler whose run() returns the four values.
InitSampling ==
    /\ InitCommon
    /\ autosave \in BOOLEAN
    /\ sampler_type = "random-local"
    /\ files = {0}

NextSampling ==
    \/ RunSamplingCall(Loop)
    \/ RunSamplingIter(Loop)
    \/ RunSamplingReturn

SpecSampling == InitSampling /\ [][NextSampling]_vars

\* run_sampling with the random-lumopt Sampler the settings select by default.
InitLumopt ==
    /\ InitCommon
    /\ autosave \in BOOLEAN
    /\ sampler_type = "random-lumopt"
    /\ files = {0}

NextLumopt ==
    \/ DoRunStudy(Wide)
    \/ RunSamplingCall(Wide)
    \/ RunSamplingLumopt
    \/ RunSamplingReturn

SpecLumopt == InitLumopt /\ [][NextLumopt]_vars

\* The Sampler on its own, after RandomLumopt.__init__.
InitSamplerOver(G, L, Restart, Settings) ==
    /\ sample = << >>
    /\ sample_num = 0
    /\ maps = << >>
    /\ fom_name = Interned("fom")
    /\ geom = <<0>>
    /\ autosave = FALSE
    /\ sampler_type = "random-lumopt"
    /\ simulator_restart \in Restart
    /\ service = InitService
    /\ files = {}
    /\ dr = NewModel(1)
    /\ rs = [active |-> FALSE]
    /\ sw = [active |-> FALSE]
    /\ \E g \in G, l \in L, settings \in Settings :
          smp = [active |-> FALSE, has_global |-> g, has_local |-> l,
                 iteration |-> 0, results_num |-> 0,
                 sampling_param |-> << >>, sampling_res |-> << >>,
                 max_results |-> 0, max_iter |-> 0, error_flag |-> 0,
                 new_param |-> NoParam, steps |-> 0, pre_iteration |-> 0,
                 ever_ok |-> FALSE, pass |-> NoPass,
                 reset_counter |-> FALSE,
                 settings |-> settings, bounds |-> RandomLumoptBounds(settings)]
    /\ sim_open = FALSE
    /\ fdtd = FALSE
    /\ disk = NoFile
    /\ held = Constructed
    /\ last = [op |-> "init"]

\* The settings of a Sampler given a sampling function and no bounds.
FunctionOnly ==
    [global_sample_function |-> SampleFunction(DrawnParams),
     global_parameters_bounds |-> NoSetting]

\* A Sampler with any pair of constraints, on a Study that restarts the
\* simulator at every run.
InitSampler == InitSamplerOver(BOOLEAN, BOOLEAN, {TRUE}, {FunctionOnly})

NextSampler ==
    \/ SamplerCall
    \/ SamplerIterScreened(ScreenOutcomes)
    \/ SamplerIterDirect
    \/ SamplerReturn

SpecSampler == InitSampler /\ [][NextSampler]_vars

\* What the screening simulation hands back where the Study's session is
\* followed: a result, or an exception before, while or after the session is
\* set up.
SessionOutcomes == {Num(1), RaisedInit, RaisedBuild, RaisedRun}

NextSession ==
    \/ SamplerCall
    \/ SamplerIterScreened(SessionOutcomes)
    \/ SamplerIterDirect
    \/ SamplerReturn
    \/ DoCloseSimulation

\* A Sampler with any pair of constraints, on a Study that restarts the
\* simulator at every run or keeps its session.
InitSession == InitSamplerOver(BOOLEAN, BOOLEAN, BOOLEAN, {FunctionOnly})

SpecSession == InitSession /\ [][NextSession]_vars

\* The settings where the bounds of the random restart are explored: bounds
\* (0, 2) or none, and a sampling function returning 1 or 3, or none.
BoundsSettings ==
    [global_sample_function : {NoSetting, SampleFunction({<<1>>, <<3>>})},
     global_parameters_bounds : {NoSetting, ParametersBounds(0, 2)}]

InitBounds == InitSamplerOver(BOOLEAN, {FALSE}, {TRUE}, BoundsSettings)

NextBounds ==
    \/ SamplerCall
    \/ SamplerIterScreened({Num(1)})
    \/ SamplerIterDirect
    \/ SamplerReturn

SpecBounds == InitBounds /\ [][NextBounds]_vars

(***************************************************************************)
(* The Sample Store on its own (a DataCollection used directly)            *)
(***************************************************************************)
InitStore ==
    /\ InitCommon
    /\ autosave = FALSE
    /\ sampler_type = "random-local"
    /\ files = {}

\* A csv file written elsewhere: one row, stage 'sampling', name 'fom',
\* parameter 1, result 1.
ForeignCsv ==
    {<<[simulation_name |-> "sampling", result_name |-> "fom",
        cells |-> <<Cell(1), Cell(1)>>]>>}

\* The values used where lookups are explored: two parameter vectors, two
\* result names given as literals, and Samples read from csv.
Find ==
    [params |-> Params, cap |-> MaxStore, stages |-> {"default"},
     results |-> {Num(1)}, names |-> {Interned("fom"), Interned("loss")},
     csv |-> ForeignCsv]

NextFind ==
    \/ DoAddSample(Find)
    \/ DoIsSample(Find)
    \/ DoExportToCsv
    \/ DoLoadFromCsv(Find)

(***************************************************************************)
(* The Reduction Model on its own (a DimensionalityReductionPCA used       *)
(* directly), configured for one or two components                         *)
(***************************************************************************)
InitModel ==
    /\ sample = << >>
    /\ sample_num = 0
    /\ maps = << >>
    /\ fom_name = Interned("fom")
    /\ geom = <<0>>
    /\ autosave = FALSE
    /\ sampler_type = "random-local"
    /\ simulator_restart = TRUE
    /\ service = InitService
    /\ files = {}
    /\ dr \in {NewModel(1), NewModel(2)}
    /\ rs = [active |-> FALSE]
    /\ sw = [active |-> FALSE]
    /\ smp = [active |-> FALSE]
    /\ sim_open = FALSE
    /\ fdtd = FALSE
    /\ disk = NoFile
    /\ held = Constructed
    /\ last = [op |-> "init"]

\* Training batches: one vector; four vectors around (3, 3) spread more
\* along the first axis; four around (2, 3) spread more along the second;
\* two vectors of one feature.
One == << <<3, 3>> >>
Rect == << <<5, 4>>, <<5, 2>>, <<1, 4>>, <<1, 2>> >>
Tall == << <<3, 5>>, <<1, 5>>, <<3, 1>>, <<1, 1>> >>
Line == << <<0>>, <<2>> >>

\* The values used where the Reduction Model is explored: the batches, both
\* behaviours of the library on a batch smaller than the component count,
\* both signs, and every form of the arguments of subspace_mesh.
Model ==
    [batches |-> {<< >>, One, Rect, Tall, Line}, builds |-> BOOLEAN,
     signs |-> {1, -1},
     vectors |-> {<<5, 4>>, <<1, 5>>, <<0>>},
     reduced |-> {<<2>>, <<2, 1>>},
     distances |-> {NoArg, Scalar(3), PyList(<<3, 4>>), NdArray(<<3, 4>>)},
     counts |-> {NoArg, Scalar(1), Scalar(3), PyList(<<2, 3>>)},
     boundaries |-> {NoArg, PyList(<< <<-4, -3>>, <<4, 3>> >>)}]

NextModel ==
    \/ DoTrainModel(Model)
    \/ DoResetModel
    \/ DoProject(Model)
    \/ DoInvert(Model)
    \/ DoSubspaceMesh(Model)

SpecModel == InitModel /\ [][NextModel]_vars

\* The values used where the sweep generates its own grid: a model trained
\* on two vectors of one feature, and every way of leaving out the distance
\* and the number of points.
Mesh ==
    [params |-> Params, outcomes |-> {PyFalse, Num(1)}, cap |-> MaxStore,
     batches |-> {Line}, builds |-> {FALSE}, signs |-> {1},
     distances |-> {NoArg, Scalar(1)}, counts |-> {NoArg, Scalar(3)},
     boundaries |-> {NoArg}, meshes |-> Meshes]

NextMesh ==
    \/ DoTrainModel(Mesh)
    \/ DoSubspaceMesh(Mesh)
    \/ SweepCall(Mesh)
    \/ SweepEval(Mesh)
    \/ SweepFinish

SpecMesh == InitStore /\ [][NextMesh]_vars

\* The values used where the project file is explored: one parameter vector,
\* evaluations that succeed, one training batch, grids given by the caller.
Persist ==
    [params |-> {<<1>>}, outcomes |-> {Num(1)}, cap |-> MaxStore,
     batches |-> {Line}, builds |-> {FALSE}, signs |-> {1}, meshes |-> {"given"}]

\* save_data and load_data on an orchestrator as constructed.
InitPersist ==
    /\ InitCommon
    /\ autosave = FALSE
    /\ sampler_type = "random-local"
    /\ files = {}

NextPersist ==
    \/ DoTrainModel(Persist)
    \/ SweepCall(Persist)
    \/ SweepEval(Persist)
    \/ SweepFinish
    \/ DoSetAutosave
    \/ DoSaveData
    \/ DoLoadData

SpecPersist == InitPersist /\ [][NextPersist]_vars

\* save_data and load_data on an orchestrator whose Study keeps its simulator
\* session between runs: a sweep leaves the session open.
InitReload ==
    /\ sample = << >>
    /\ sample_num = 0
    /\ maps = << >>
    /\ fom_name = Interned("fom")
    /\ geom = <<0>>
    /\ simulator_restart = FALSE
    /\ service = InitService
    /\ dr = NewModel(1)
    /\ rs = [active |-> FALSE]
    /\ sw = [active |-> FALSE]
    /\ smp = [active |-> FALSE]
    /\ sim_open = FALSE
    /\ fdtd = FALSE
    /\ disk = NoFile
    /\ held = Constructed
    /\ last = [op |-> "init"]
    /\ autosave = FALSE
    /\ sampler_type = "random-local"
    /\ files = {}

NextReload ==
    \/ SweepCall(Persist)
    \/ SweepEval(Persist)
    \/ SweepFinish
    \/ DoSaveData
    \/ DoLoadData

SpecReload == InitReload /\ [][NextReload]_vars

\* The values used where the tabular file is explored: results of one and of
\* two components, and the parameter count of the Samples.
Csv ==
    [params |-> {<<1>>}, cap |-> MaxStore, stages |-> {"sampling", "sweeping"},
     results |-> {Num(1), List(<<1, 2>>)}, names |-> {Interned("fom")},
     sizes |-> {1}]

NextCsv ==
    \/ DoAddSample(Csv)
    \/ DoExportFile
    \/ DoNewStore
    \/ DoLoadFile(Csv)

SpecCsv == InitStore /\ [][NextCsv]_vars

\* The values used where the naming of the autosave file is explored.
Naming ==
    [params |-> {<<1>>}, outcomes |-> {PyFalse, Num(1)}, cap |-> MaxStore,
     tags |-> {"default"}]

\* An orchestrator with autosave on, in a folder that may hold project files
\* of earlier runs.
InitNaming ==
    /\ InitCommon
    /\ autosave = TRUE
    /\ sampler_type = "random-local"
    /\ files \in {{}, {0}, {0, 1}, {0, 2}}

NextNaming ==
    \/ DoRunStudy(Naming)
    \/ DoSaveDefault
    \/ DoSaveData
    \/ DoLoadData

SpecNaming == InitNaming /\ [][NextNaming]_vars

\* The values used where the choice of training data is explored: the stage
\* tags a caller can pass to run_study, and a bound equal to the result.
Reduce ==
    [params |-> {<<1>>}, outcomes |-> {PyFalse, Num(1)}, cap |-> MaxStore,
     tags |-> {"sampling", "sweeping", "sam"}, bounds |-> {None, 1},
     builds |-> {FALSE}]

NextReduce ==
    \/ DoRunStudy(Reduce)
    \/ DoDimensionalityReduction(Reduce)

SpecReduce == InitStore /\ [][NextReduce]_vars

\* The values used where the indices a Map holds are explored: training
\* through dimensionality_reduction, meshes, and sweeps on given and on
\* generated grids, over a point the store holds and one it does not.
Indexed ==
    [params |-> {<<0>>, <<1>>}, outcomes |-> {PyFalse, Num(1)}, cap |-> MaxSamples,
     bounds |-> {None}, builds |-> {FALSE},
     distances |-> {NoArg, Scalar(1)}, counts |-> {NoArg, Scalar(3)},
     boundaries |-> {NoArg}, meshes |-> Meshes]

\* An orchestrator whose store is empty, or holds what two sampling-stage
\* evaluations on the vectors of Line leave.
InitMaps ==
    /\ sample \in {<< >>,
                    <<Sample(Line[1], "sampling", Num(1), Interned("fom")),
                      Sample(Line[2], "sampling", Num(1), Interned("fom"))>>}
    /\ sample_num = Len(sample)
    /\ maps = << >>
    /\ fom_name = Interned("fom")
    /\ geom = <<0>>
    /\ simulator_restart = TRUE
    /\ service = InitService
    /\ dr = NewModel(1)
    /\ rs = [active |-> FALSE]
    /\ sw = [active |-> FALSE]
    /\ smp = [active |-> FALSE]
    /\ sim_open = FALSE
    /\ fdtd = FALSE
    /\ disk = NoFile
    /\ held = Constructed
    /\ last = [op |-> "init"]
    /\ autosave = FALSE
    /\ sampler_type = "random-local"
    /\ files = {}

NextMaps ==
    \/ DoDimensionalityReduction(Indexed)
    \/ DoSubspaceMesh(Indexed)
    \/ SweepCall(Indexed)
    \/ SweepEval(Indexed)
    \/ SweepFinish

SpecMaps == InitMaps /\ [][NextMaps]_vars

\* A new orchestrator in a folder that may hold project files and csv
\* exports of earlier runs; nothing is written yet.
InitExport ==
    /\ sample = << >>
    /\ sample_num = 0
    /\ maps = << >>
    /\ fom_name = Interned("fom")
    /\ geom = <<0>>
    /\ simulator_restart = TRUE
    /\ service = InitService
    /\ dr = NewModel(1)
    /\ rs = [active |-> FALSE]
    /\ sw = [active |-> FALSE]
    /\ smp = [active |-> FALSE]
    /\ sim_open = FALSE
    /\ fdtd = FALSE
    /\ disk = NoFile
    /\ held = Constructed
    /\ last = [op |-> "init", written |-> {}]
    /\ autosave = FALSE
    /\ sampler_type = "random-local"
    /\ files \in SUBSET {0, 1, CsvName(0), CsvName(1)}

NextExport == DoSaveOrExport

SpecExport == InitExport /\ [][NextExport]_vars

SpecFind == InitStore /\ [][NextFind]_vars

\* The values used where filtering on one result component is explored: two
\* stages, two result values, two names, a lower bound between the values
\* and an upper bound equal to one of them.
Filter ==
    [params |-> {<<0>>}, cap |-> MaxSamples, stages |-> {"sampling", "sweeping"},
     results |-> {Num(2), Num(8)}, names |-> {Interned("fom"), Interned("loss")},
     indices |-> {Component(0)}, stage_sets |-> {AnyStage, Stages({"sampling"})},
     bounds |-> {None, 5}, ubounds |-> {None, 8}, bound_lists |-> {}]

NextFilter ==
    \/ DoAddSample(Filter)
    \/ DoFilter(Filter)

SpecFilter == InitStore /\ [][NextFilter]_vars

\* The values used where filtering on a list of components is explored:
\* two-component results, lower bounds [1, None] and upper bounds [None, 9].
FilterOnList ==
    [params |-> {<<0>>}, cap |-> MaxSamples, stages |-> {"sampling", "sweeping"},
     results |-> {List(<<5, 5>>), List(<<5, 9>>)}, names |-> {Interned("fom")},
     indices |-> {Components(<<0, 1>>)},
     stage_sets |-> {AnyStage, Stages({"sampling"})},
     bounds |-> {}, ubounds |-> {},
     bound_lists |-> {[lb |-> <<1, None>>, ub |-> <<None, 9>>]}]

NextFilterOnList ==
    \/ DoAddSample(FilterOnList)
    \/ DoFilter(FilterOnList)

SpecFilterOnList == InitStore /\ [][NextFilterOnList]_vars


(***************************************************************************)
(* Properties                                                              *)
(***************************************************************************)
\* The failure sentinel as the callers of the evaluator see it: False, or a
\* number equal to it.
Sentinel(res) == res = PyFalse \/ res = Num(0)

\* The evaluator of a run_study call did not fail: it was not invoked, or it
\* returned something other than the sentinel without raising.
EvaluatorSucceeded(c) == c.invoked => (~c.raised /\ ~Sentinel(c.res))

\* run_study was just called a second time in a row with the same non-absent
\* parameters, force_run off in both calls, and the evaluator failed in neither.
SecondCall ==
    /\ last.op = "run_study"
    /\ last.param # NoParam
    /\ last.prev.twice
    /\ EvaluatorSucceeded(last.prev)
    /\ EvaluatorSucceeded(last)

Count(b) == IF b THEN 1 ELSE 0

RECURSIVE SweptSamples(_, _, _)
SweptSamples(grid, trace, k) ==
    IF k > Len(trace) THEN << >>
    ELSE (IF trace[k].invoked /\ ~Sentinel(trace[k].res) /\ trace[k].res.t # "raise"
          THEN <<Sample(grid[k], "sweeping", trace[k].res, fom_name)>>
          ELSE << >>) \o SweptSamples(grid, trace, k + 1)

\* The evaluator returned the sentinel at some point of the finished sweep.
SweepHitSentinel ==
    /\ last.op = "subspace_sweep"
    /\ \E k \in 1 .. Len(last.trace) :
          last.trace[k].invoked /\ Sentinel(last.trace[k].res)

\* C2: when a sweep's evaluator returns the failure sentinel, the sweep adds
\* no Map and returns None, the store holds what it held before followed by
\* the Samples inserted before the failing point, and no point after the
\* failing one is evaluated.
C2_SweepAllOrNothing ==
    SweepHitSentinel =>
        /\ Len(maps) = last.pre_maps
        /\ last.ret = None
        /\ sample = last.pre \o SweptSamples(last.grid, last.trace, 1)
        /\ Sentinel(last.trace[Len(last.trace)].res)
        /\ \A k \in 1 .. Len(last.trace) - 1 : ~Sentinel(last.trace[k].res)

\* The second point of a sweep failed after the first one was inserted.
C2_Witness ==
    /\ SweepHitSentinel
    /\ Len(last.trace) = 2
    /\ Len(last.grid) = 2
    /\ Len(sample) = Len(last.pre) + 1

\* A confirmed sweep went over its whole grid and no evaluation failed.
SweepCompleted ==
    /\ last.op = "subspace_sweep"
    /\ ~last.raised
    /\ ~SweepDeclined(last.go, last.response)
    /\ Len(last.trace) = Len(last.grid)
    /\ \A k \in 1 .. Len(last.trace) :
          ~Sentinel(last.trace[k].res) /\ last.trace[k].res.t # "raise"

\* C7 as stated: a confirmed sweep whose evaluations all succeed appends exactly
\* one Map and returns its index, with autosave on or off.
C7_Stated ==
    SweepCompleted =>
        /\ Len(maps) = last.pre_maps + 1
        /\ last.ret = last.pre_maps

\* The prompt of a sweep was shown and answered with something other than "y".
SweepUnconfirmed ==
    /\ last.op = "subspace_sweep"
    /\ ~last.raised
    /\ ~last.go
    /\ last.response # "y"

\* C8: a sweep called without the bypass flag and answered with anything other
\* than "y" returns None, invokes no evaluator, and leaves store and Maps as
\* they were.
C8_UnconfirmedSweep ==
    SweepUnconfirmed =>
        /\ last.ret = None
        /\ last.trace = << >>
        /\ sample = last.pre
        /\ Len(maps) = last.pre_maps

\* A non-empty sweep was declined with an answer that is neither "y" nor "n".
C8_Witness == SweepUnconfirmed /\ last.response = "Y" /\ Len(last.grid) > 0

C4_Stated == rs.active => rs.calls <= ErrorBudget

\* C5 as stated: run_sampling with the random-lumopt Sampler completes, and
\* adds to the store exactly one Sample per pair the Sampler returned.
C5_Stated ==
    last.op = "run_sampling" =>
        /\ ~last.raised
        /\ Len(sample) = last.pre_num + Len(last.pairs)

\* C6: run_sampling returns True exactly when the accepted-result counter is at
\* least max_results once its loop has ended, and False otherwise.
C6_SamplingReturn ==
    (last.op = "run_sampling" /\ ~last.raised) =>
        /\ last.ret \in BOOLEAN
        /\ last.ret <=> (service.sampler_results_num >= last.max_results)

\* A run that reached a positive max_results, so returned True.
C6_Witness ==
    /\ last.op = "run_sampling"
    /\ ~last.raised
    /\ last.max_results > 0
    /\ service.sampler_results_num = last.max_results
    /\ last.ret = TRUE
    /\ Len(last.pairs) > 0

\* RandomLumopt.run has just returned, no evaluator call of the Sampler has
\* ever returned without raising, and max_results was positive.
AlwaysRaisingRun ==
    /\ last.op = "sampler_run"
    /\ ~smp.ever_ok
    /\ last.max_results > 0

\* C3 as stated: RandomLumopt.run with an evaluator whose every call raises ends
\* after exactly 6 loop iterations, leaves the iteration counter where it was
\* and returns a count below max_results.
C3_Stated ==
    AlwaysRaisingRun =>
        /\ last.steps = ErrorBudget
        /\ smp.iteration = last.pre_iteration
        /\ last.ret < last.max_results

\* C3, amended: the same, for a run whose max_iter is positive, so that the
\* loop is entered at all.
C3_ErrorBudget ==
    (AlwaysRaisingRun /\ last.max_iter > 0) =>
        /\ last.steps = ErrorBudget
        /\ smp.iteration = last.pre_iteration
        /\ last.ret < last.max_results

\* A run that used up the error budget.
C3_Witness ==
    /\ AlwaysRaisingRun
    /\ last.max_iter > 0
    /\ last.steps = ErrorBudget
    /\ last.ret = 0

\* Every Sample of store s is at the same index of store t.
Extends(s, t) == Len(s) <= Len(t) /\ SubSeq(t, 1, Len(s)) = s

\* C10: whatever the operations on one store, sample_num is the number of stored
\* Samples, an insert returns the size the store had before it, and every step
\* leaves each stored Sample at its index with the same parameters, stage,
\* result and result_name.
C10_AppendOnly ==
    /\ [](sample_num = Len(sample)
          /\ (last.op = "add_sample" => last.ret = Len(sample) - 1))
    /\ [][Extends(sample, sample')]_vars

\* An insert into a store that already held a Sample from another stage.
C10_Witness ==
    /\ last.op = "add_sample"
    /\ Len(sample) = 2
    /\ sample[1].simulation_name # "default"

\* The stored Samples a lookup is specified to find: the same name and an
\* element-wise equal parameter vector of the same length.
SameNameAndParameters(parameters, result_name) ==
    {i \in 0 .. Len(sample) - 1 :
        /\ Len(sample[i + 1].parameters) = Len(parameters)
        /\ sample[i + 1].parameters = parameters
        /\ sample[i + 1].result_name.text = result_name.text}

\* C11 as stated: is_sample reports found exactly when some stored Sample has
\* the same result_name and an equal parameter vector, and then returns the
\* lowest such index.
C11_Stated ==
    last.op = "is_sample" =>
        LET same == SameNameAndParameters(last.parameters, last.result_name)
        IN  /\ last.found <=> same # {}
            /\ last.found => last.idx = SetMin(same)

\* The Samples a filter on one component is specified to return.
Selected(result_name, k, stage_in, lb, ub) ==
    {i \in 0 .. Len(sample) - 1 :
        /\ sample[i + 1].result_name.text = result_name.text
        /\ (stage_in.t = "none" \/ sample[i + 1].simulation_name \in stage_in.v)
        /\ (lb = None \/ sample[i + 1].result.v[k + 1] > lb)
        /\ (ub = None \/ sample[i + 1].result.v[k + 1] < ub)}

Increasing(seq) == \A j \in 1 .. Len(seq) - 1 : seq[j] < seq[j + 1]

\* C12: a filter on a single result component returns, in increasing index
\* order, exactly the Samples whose name matches, whose stage is in the
\* allowed set (any stage when unset) and whose component lies strictly
\* between the bounds (None disabling a side).
C12_FilterOneComponent ==
    (last.op = "filter_simulation" /\ last.result_index.t = "int") =>
        /\ ~last.raised
        /\ Increasing(last.idx)
        /\ {last.idx[j] : j \in 1 .. Len(last.idx)}
              = Selected(last.result_name, last.result_index.v, last.stage_in,
                         last.lb, last.ub)

\* The example: stages [sampling, sampling, sweeping], results 2, 8, 8,
\* filter('fom', 0, ['sampling'], lower_bound 5) returns exactly index 1.
C12_Witness ==
    /\ last.op = "filter_simulation"
    /\ Len(sample) = 3
    /\ [i \in 1 .. 3 |-> sample[i].simulation_name]
          = <<"sampling", "sampling", "sweeping">>
    /\ [i \in 1 .. 3 |-> sample[i].result.v[1]] = <<2, 8, 8>>
    /\ \A i \in 1 .. 3 : sample[i].result_name.text = "fom"
    /\ last.result_name.text = "fom"
    /\ last.stage_in = Stages({"sampling"})
    /\ last.lb = 5
    /\ last.ub = None
    /\ last.idx = <<1>>

\* The Samples a filter on a list of components is specified to return: every
\* listed component strictly within its own bounds, a None entry exempting
\* that side of that component.
SelectedOnList(result_name, ks, stage_in, lb, ub) ==
    {i \in 0 .. Len(sample) - 1 :
        /\ sample[i + 1].result_name.text = result_name.text
        /\ (stage_in.t = "none" \/ sample[i + 1].simulation_name \in stage_in.v)
        /\ \A j \in 1 .. Len(ks) :
              LET x == sample[i + 1].result.v[ks[j] + 1]
              IN  /\ (lb[j] = None \/ x > lb[j])
                  /\ (ub[j] = None \/ x < ub[j])}

\* C13 as stated: a filter on a list of components with per-component bound
\* lists completes and returns exactly the Samples whose listed components
\* each lie strictly within their own bounds.
C13_Stated ==
    (last.op = "filter_simulation" /\ last.result_index.t = "list") =>
        /\ ~last.raised
        /\ {last.idx[j] : j \in 1 .. Len(last.idx)}
              = SelectedOnList(last.result_name, last.result_index.v,
                               last.stage_in, last.lb, last.ub)

\* The Samples the training is specified to use: the active name, the stage
\* tag exactly 'sampling', the component strictly within the bounds.
TrainingSet(lb, ub) ==
    {i \in 0 .. Len(sample) - 1 :
        /\ sample[i + 1].result_name.text = fom_name.text
        /\ sample[i + 1].simulation_name = "sampling"
        /\ (lb = None \/ sample[i + 1].result.v[1] > lb)
        /\ (ub = None \/ sample[i + 1].result.v[1] < ub)}

\* C14 as stated: dimensionality_reduction trains on exactly the parameter
\* vectors of the Samples with the active name, the stage tag 'sampling' and
\* the component within the bounds, and records exactly their indices.
C14_Stated ==
    last.op = "dimensionality_reduction" =>
        LET idx == service.dr_training_index
        IN  /\ {idx[j] : j \in 1 .. Len(idx)} = TrainingSet(last.lb, last.ub)
            /\ dr.training_data.data = ParametersOf(sample, idx)

\* The rank a batch can give: no more components than vectors or features.
RankOf(data) ==
    IF data = << >> THEN 0
    ELSE IF Len(data) < Len(data[1]) THEN Len(data) ELSE Len(data[1])

\* C15: a train call that succeeds leaves the dimension count at the minimum
\* of the count in force before it and the number of components found, one
\* that fails leaves it alone, so the count never increases without a reset;
\* after reset it is the configured count.
C15_DimensionCount ==
    /\ (last.op = "train_model" /\ ~last.raised) =>
          /\ dr.n_components = Smaller(last.pre.n_components, RankOf(last.data))
          /\ dr.n_components = Len(dr.model.num) \/ dr.model.num = << >>
    /\ last.op = "train_model" => dr.n_components <= last.pre.n_components
    /\ last.op = "reset_model" => dr.n_components = dr.init_n_components

\* A model whose count had shrunk below the configured one is trained on a
\* batch that could give the configured count, and keeps the smaller count.
C15_Witness ==
    /\ last.op = "train_model"
    /\ ~last.raised
    /\ last.pre.n_components < last.pre.init_n_components
    /\ RankOf(last.data) >= last.pre.init_n_components
    /\ dr.n_components = last.pre.n_components

Untrained(m) == ~Trained(m)

\* C16: the model starts Untrained; a successful train makes it Trained, on
\* the new batch alone; reset takes a Trained model back to the constructed
\* state; project, invert and subspace_mesh change nothing, succeed only on
\* a Trained model and fail on an Untrained one.
C16_TwoStates ==
    /\ last.op = "init" => Untrained(dr)
    /\ (last.op = "train_model" /\ ~last.raised) =>
          /\ Trained(dr)
          /\ \A attr \in {dr.training_data, dr.scaler, dr.model,
                           dr.projected_training_data} : attr.data = last.data
    /\ (last.op = "reset_model" /\ Trained(last.pre)) =>
          /\ ~last.raised
          /\ dr = NewModel(last.pre.init_n_components)
          /\ Untrained(dr)
    /\ last.op \in {"project", "invert_model", "subspace_mesh"} =>
          /\ dr = last.pre
          /\ Untrained(last.pre) => last.raised
          /\ ~last.raised => Trained(last.pre)

\* A model trained on four vectors is reset.
C16_Witness ==
    /\ last.op = "reset_model"
    /\ ~last.raised
    /\ Trained(last.pre)
    /\ Len(last.pre.training_data.data) = 4
    /\ Untrained(dr)

\* C17: subspace_mesh without distance and n_points fails and returns no
\* grid; subspace_sweep called that way, with no grid of its own, invokes the
\* evaluator zero times, inserts no Sample and appends no Map.
C17_NoMeshArguments ==
    /\ (last.op = "subspace_mesh" /\ last.distance = NoArg /\ last.n_points = NoArg) =>
          /\ last.raised
          /\ last.n_points_vector = << >>
          /\ dr = last.pre
    /\ (last.op = "subspace_sweep" /\ last.mesh = "none") =>
          /\ last.raised
          /\ last.trace = << >>
          /\ sample = last.pre
          /\ Len(maps) = last.pre_maps
          /\ ~sw.active

\* The sweep is called without distance, n_points and grid on a trained
\* model, from a store that already holds a Sample.
C17_Witness ==
    /\ last.op = "subspace_sweep"
    /\ last.mesh = "none"
    /\ Trained(dr)
    /\ sample # << >>
    /\ last.raised

\* The value an argument of subspace_mesh gives axis i: a scalar to every
\* axis, a vector its own entry to each.
OnAxis(x, i) == IF Len(x.v) = 1 THEN x.v[1] ELSE x.v[i]

\* The argument fits a model of n axes.
FitsAxes(x, n) == x = NoArg \/ Len(x.v) = 1 \/ Len(x.v) = n

\* C18 as stated: on a trained model, with D the Manhattan distance between
\* the inverted boundary points of an axis, subspace_mesh given a distance d
\* places ceil(D / d) + 1 points on the axis, and given n_points places that
\* many and derives the distance D / (n_points - 1).
C18_Stated ==
    (/\ last.op = "subspace_mesh"
     /\ Trained(last.pre)
     /\ last.distance # NoArg \/ last.n_points # NoArg
     /\ FitsAxes(last.distance, last.pre.n_components)
     /\ FitsAxes(last.n_points, last.pre.n_components)) =>
        /\ ~last.raised
        /\ \A i \in 1 .. last.pre.n_components :
              LET D == Abs(UpperBound(last.pre, last.boundaries, i)
                           - LowerBound(last.pre, last.boundaries, i))
              IN  IF last.n_points = NoArg
                  THEN last.n_points_vector[i]
                         = CeilDiv(D, OnAxis(last.distance, i)) + 1
                  ELSE /\ last.n_points_vector[i] = OnAxis(last.n_points, i)
                       /\ last.dist_vector[i].num = D
                       /\ last.dist_vector[i].den = OnAxis(last.n_points, i) - 1

\* C19: a vector of the training batch, projected and then inverted, comes
\* back with every kept axis exact and every dropped axis at the batch mean,
\* and so comes back exactly when no axis is dropped.
C19_RoundTrip ==
    (/\ last.op = "invert_model"
     /\ last.from # NoParam
     /\ \E i \in 1 .. Len(dr.training_data.data) :
           dr.training_data.data[i] = last.from) =>
        /\ ~last.raised
        /\ Len(last.value) = Len(last.from)
        /\ \A a \in 1 .. Len(last.from) :
              IF \E j \in 1 .. dr.n_components : AxisOrder(dr.training_data.data)[j] = a
              THEN last.value[a] = last.from[a]
              ELSE last.value[a] = Mean(dr.training_data.data, a)
        /\ dr.n_components = Len(last.from) => last.value = last.from

\* A training vector of two features comes back from a model of one
\* component with its second coordinate replaced by the mean.
C19_Witness ==
    /\ last.op = "invert_model"
    /\ ~last.raised
    /\ last.from = <<5, 4>>
    /\ dr.training_data.data = Rect
    /\ dr.n_components = 1
    /\ last.value = <<5, 3>>

\* A store by value: a name is its text.
StoreValue(s) == [i \in 1 .. Len(s) |-> [s[i] EXCEPT !.result_name = @.text]]

\* C20: after a load of the file a save wrote, configuration, Sample Store,
\* Reduction Model, counters and Maps have the values they had at the save;
\* the file holds the sections in the order configuration, Sample Store,
\* Reduction Model, counters, Maps, Study, Sampler.
C20_SaveLoad ==
    /\ (last.op = "load_data" /\ last.loaded) =>
          /\ autosave = disk.at_save.autosave
          /\ StoreValue(sample) = StoreValue(disk.at_save.data.sample)
          /\ sample_num = disk.at_save.data.sample_num
          /\ dr = disk.at_save.dr
          /\ service = disk.at_save.service
          /\ maps = UnpickledMaps(disk.at_save.maps, disk.at_save.dr)
    /\ disk.exists =>
          /\ Len(disk.sections) \in {5, 6, 7}
          /\ disk.sections[1] = [autosave |-> disk.at_save.autosave]
          /\ disk.sections[2] = disk.at_save.data
          /\ disk.sections[3] = disk.at_save.dr
          /\ disk.sections[4] = disk.at_save.service
          /\ disk.sections[5] = disk.at_save.maps
          /\ \A i, j \in 6 .. Len(disk.sections) :
                IsStudySection(disk.sections[j]) => i >= j

\* A load of the file after the configuration, the store, the model, the
\* counters and the Maps have all changed since the save.
C20_Witness ==
    /\ last.op = "load_data"
    /\ last.loaded
    /\ last.before.sample_num # sample_num
    /\ last.before.maps # Len(maps)
    /\ last.before.trained # Trained(dr)
    /\ last.before.autosave # autosave
    /\ last.before.service # service

\* The mandatory sections of the file are back in their attributes.
MandatoryRestored ==
    /\ autosave = disk.at_save.autosave
    /\ StoreValue(sample) = StoreValue(disk.at_save.data.sample)
    /\ sample_num = disk.at_save.data.sample_num
    /\ dr = disk.at_save.dr
    /\ service = disk.at_save.service
    /\ maps = UnpickledMaps(disk.at_save.maps, disk.at_save.dr)

\* C21: after a load of a file that was saved while the Study could not be
\* pickled and the Sampler could, the five mandatory sections are restored,
\* the Study is the one the orchestrator had, and the Sampler is the saved
\* Sampler.
C21_Stated ==
    (/\ last.op = "load_data"
     /\ last.loaded
     /\ ~disk.at_save.study_ok
     /\ disk.at_save.sampler_ok) =>
        /\ MandatoryRestored
        /\ last.study = NotLoaded
        /\ held.study = last.before.held.study
        /\ held.sampler = disk.at_save.sampler

\* The name a save without a file name picks when its target exists: the
\* suffix followed by the smallest n >= 1 that is free.
SmallestFree(fs, n) == n >= 1 /\ n \notin fs /\ \A m \in 1 .. (n - 1) : m \in fs

\* A step of an operation other than load_data and a save without override.
KeepsNaming == last'.op \notin {"load_data", "save_default"}

\* The step is the first save of the run without a file name.
FirstSave == ~service.new_name_generated /\ service'.new_name_generated

C23_Stated ==
    /\ last.op = "sampler_run" => (~sim_open /\ ~fdtd)
    /\ (last.op = "close_simulation" /\ ~last.before.fdtd) =>
          (~last.raised /\ ~sim_open /\ ~fdtd)

\* The step is a pass of the Sampler's loop in which the refiner ran: its
\* result was recorded, after the screening result when there is one.
Refines ==
    /\ smp.active /\ smp'.active
    /\ Len(smp'.sampling_res) =
          Len(smp.sampling_res) + (IF smp.has_global THEN 2 ELSE 1)

\* C24: when a refiner runs, with its own session, the Study has no session.
C24_Stated == [][Refines => ~fdtd']_vars

\* The Maps there were are still there, in place, each holding what it held.
MapsKept ==
    /\ Len(maps') >= Len(maps)
    /\ \A k \in 1 .. Len(maps) :
          /\ MapModel(maps'[k], dr') = MapModel(maps[k], dr)
          /\ maps'[k].training_data_idx = maps[k].training_data_idx
          /\ maps'[k].projected_grid = maps[k].projected_grid
          /\ maps'[k].normalized_projected_grid = maps[k].normalized_projected_grid
          /\ maps'[k].sim_idx = maps[k].sim_idx

\* C25: no step of training, sweeping or evaluating changes what a Map
\* already appended holds, and Maps are only appended.
C25_Stated == [][MapsKept]_vars

\* The Sample has the stage tag, the result name, the parameters and the
\* result, component by component, of the other.
SameSample(a, b) ==
    /\ a.simulation_name = b.simulation_name
    /\ PyEq(a.result_name, b.result_name)
    /\ a.parameters = b.parameters
    /\ a.result_size = b.result_size
    /\ a.result.v = b.result.v

\* C26: the file export_to_csv wrote, read by load_from_csv into an empty
\* store with the parameter count of the Samples, gives the Samples that were
\* exported, in order.
C26_Stated ==
    (last.op = "load_file" /\ last.into_empty) =>
        /\ ~last.raised
        /\ Len(sample) = Len(disk.of)
        /\ \A i \in 1 .. Len(sample) : SameSample(sample[i], disk.of[i])

\* C27: a failure of the Sampler or of the evaluator never leaves run_sampling
\* or the evaluation loop of subspace_sweep as an exception: run_sampling
\* returns a truth value and a sweep whose loop began returns without raising.
C27_Stated ==
    /\ last.op = "run_sampling" => (~last.raised /\ last.ret \in BOOLEAN)
    /\ (last.op = "subspace_sweep" /\ last.trace # << >>) => ~last.raised

\* The Sample at a store index (indices count from 0) has the parameters.
RefersTo(s, idx, param) ==
    /\ idx \in 0 .. (Len(s) - 1)
    /\ s[idx + 1].parameters = param

\* The sweep that completed last appended its Map.
SweepSucceeded == last.op = "subspace_sweep" /\ Len(maps) = last.pre_maps + 1

\* C28: a sweep evaluates its grid points one after the other in grid order;
\* the k-th swept-evaluation index, while the loop runs and in the Map of a
\* sweep that succeeded, refers to the Sample with the parameters of the k-th
\* grid point, and the Samples the sweep inserted have increasing indices in
\* grid order, all after the Samples the store held before.
C28_SweepOrder ==
    /\ sw.active =>
          /\ Len(sw.mapping_idx) = sw.k - 1
          /\ Len(sw.trace) = sw.k - 1
          /\ \A j \in 1 .. Len(sw.mapping_idx) :
                RefersTo(sample, sw.mapping_idx[j], sw.grid[j])
          /\ (sw.k > 1 /\ sw.trace[sw.k - 1].invoked) => geom = sw.grid[sw.k - 1]
          /\ SubSeq(sample, 1, Len(sw.pre)) = sw.pre
    /\ SweepSucceeded =>
          LET idx == maps[Len(maps)].sim_idx
          IN  /\ Len(idx) = Len(last.grid)
              /\ \A k \in 1 .. Len(idx) : RefersTo(sample, idx[k], last.grid[k])
              /\ \A j, k \in 1 .. Len(idx) :
                    (j < k /\ last.trace[j].invoked /\ last.trace[k].invoked) =>
                        (Len(last.pre) <= idx[j] /\ idx[j] < idx[k])

\* A sweep of two points that succeeded: one point was in the store already,
\* the other was evaluated and inserted; and one where both were inserted.
C28_Witness ==
    /\ SweepSucceeded
    /\ Len(last.grid) = 2
    /\ last.trace[2].invoked
    /\ last.pre # << >>

\* One pass of the Sampler's loop body has been made.
SamplerPass == smp.active /\ smp'.active /\ smp'.steps = smp.steps + 1

\* C29: in a pass of the Sampler's loop the screening simulation is run, and
\* its result recorded, only when a global constraint is set; the refinement
\* is made (its result recorded) exactly when the global constraint is unset
\* or accepted the screening result; and the accepted counter grows by one
\* exactly when the refinement was made and the local constraint is unset or
\* accepted its result, and stays otherwise.
C29_Iteration ==
    [][SamplerPass =>
        LET p == smp'.pass
            screened == smp.has_global /\ p.screen = "ok"
            reached == ~smp.has_global \/ (screened /\ p.accept = "yes")
            refined == reached /\ p.refine = "ok"
            n == Len(smp.sampling_res)
        IN  /\ ~smp.has_global => UNCHANGED <<sample, sample_num, sim_open, fdtd>>
            /\ Len(smp'.sampling_res) =
                   n + (IF screened THEN 1 ELSE 0) + (IF refined THEN 1 ELSE 0)
            /\ SubSeq(smp'.sampling_res, 1, n) = smp.sampling_res
            /\ (screened /\ smp.new_param # NoParam) =>
                   smp'.sampling_param[n + 1] = smp.new_param
            /\ refined =>
                   smp'.sampling_param[Len(smp'.sampling_param)] \in RefinedParams
            /\ smp'.results_num =
                   smp.results_num
                   + (IF refined /\ (~smp.has_local \/ p.local) THEN 1 ELSE 0)]_vars

\* A pass in which the global constraint accepted the screening result and
\* the local constraint turned the refined result down.
C29_Witness ==
    /\ smp.active
    /\ smp.has_global /\ smp.has_local
    /\ smp.pass = [screen |-> "ok", accept |-> "yes", refine |-> "ok", local |-> FALSE]
    /\ Len(smp.sampling_res) = 2

\* C30: with bounds in the settings, every candidate the Sampler is about to
\* push after the initial one is strictly inside them, whether it came from
\* the default proposal or from the caller's sampling function; without
\* bounds in the settings every proposal is taken.
C30_Stated ==
    /\ (smp.active /\ smp.new_param # NoParam
         /\ smp.settings.global_parameters_bounds.set) =>
           /\ smp.settings.global_parameters_bounds.lo < smp.new_param[1]
           /\ smp.new_param[1] < smp.settings.global_parameters_bounds.hi
    /\ ~smp.settings.global_parameters_bounds.set =>
           Redrawn(smp) = Proposals(smp)

\* The product of the numbers of a sequence.
RECURSIVE ProductOf(_)
ProductOf(ns) == IF ns = << >> THEN 1 ELSE Head(ns) * ProductOf(Tail(ns))

\* The place on axis i of the k-th point of a grid with ns points per axis,
\* the first axis varying slowest.
PlaceOnAxis(ns, k, i) ==
    (((k - 1) \div ProductOf(SubSeq(ns, i + 1, Len(ns)))) % ns[i]) + 1

\* A call of subspace_mesh that returned its grids.
MeshReturned == last.op = "subspace_mesh" /\ ~last.raised

\* C31: the three grids subspace_mesh returns have as many points as the
\* product of the per-axis counts; the k-th reduced point takes on every axis
\* the sample at the place the k-th tuple of the Cartesian product has with
\* axis 0 slowest, the k-th normalized point the normalized sample at the same
\* place, and the k-th full-space point is the inversion of the k-th reduced one.
C31_MeshGrids ==
    MeshReturned =>
        LET ns == last.n_points_vector
            size == ProductOf(ns)
            axes == 1 .. Len(ns)
        IN  /\ Len(last.grid) = size
            /\ Len(last.projected_grid) = size
            /\ Len(last.normalized_projected_grid) = size
            /\ \A i \in axes : Len(last.lists[i]) = ns[i]
            /\ \A k \in 1 .. size :
                  /\ Len(last.projected_grid[k]) = Len(ns)
                  /\ \A i \in axes :
                        /\ last.projected_grid[k][i] =
                               last.lists[i][PlaceOnAxis(ns, k, i)]
                        /\ last.normalized_projected_grid[k][i] =
                               last.lists_normalized[i][PlaceOnAxis(ns, k, i)]
                  /\ last.grid[k] = InvertPoint(last.pre, last.projected_grid[k])

\* A mesh of two axes with two and three points was returned.
C31_Witness ==
    /\ MeshReturned
    /\ last.n_points_vector = <<2, 3>>
    /\ Len(last.grid) = 6

\* Two fractions are the same number.
SameNumber(x, y) == x.den # 0 /\ y.den # 0 /\ x.num * y.den = y.num * x.den

\* Consecutive normalized samples of axis i differ by the distance of the axis.
EvenlyNormalized(i) ==
    \A k \in 1 .. (last.n_points_vector[i] - 1) :
        LET x == last.lists_normalized[i][k]
            y == last.lists_normalized[i][k + 1]
        IN  /\ x.den = y.den
            /\ SameNumber(Frac(y.num - x.num, x.den), last.dist_vector[i])

\* C32: subspace_mesh on a trained model asked for one point per axis
\* completes, with the normalized samples equal to the raw ones; on an axis of
\* two or more points consecutive normalized samples differ by exactly the
\* full-space distance of the axis.
C32_Stated ==
    /\ (last.op = "subspace_mesh" /\ last.n_points = Scalar(1) /\ Trained(last.pre)) =>
          /\ ~last.raised
          /\ last.lists_normalized = last.lists
    /\ MeshReturned =>
          \A i \in 1 .. Len(last.n_points_vector) :
             last.n_points_vector[i] >= 2 => EvenlyNormalized(i)

\* What is left of a run: the passes the loop can still make at most.
SamplerRank(m) ==
    (m.max_iter - m.iteration) * ErrorBudget + (ErrorBudget - m.error_flag)

\* The Sampler's run returns.
SamplerReturns == smp.active /\ ~smp'.active

\* A pass is made while the loop condition holds and advances one counter.
PassAdvances ==
    SamplerPass =>
        /\ SamplerContinues(smp)
        /\ \/ smp'.iteration = smp.iteration + 1 /\ smp'.error_flag = 0
           \/ smp'.iteration = smp.iteration /\ smp'.error_flag = smp.error_flag + 1
        /\ smp'.error_flag <= ErrorBudget
        /\ smp'.iteration <= smp.max_iter
        /\ SamplerRank(smp') < SamplerRank(smp)
        /\ SamplerRank(smp') >= 0

\* The run returns when a counter has reached its limit.
ReturnsAtLimit ==
    SamplerReturns =>
        \/ smp.iteration >= smp.max_iter
        \/ smp.results_num >= smp.max_results
        \/ smp.error_flag = ErrorBudget

\* C33: RandomLumopt.run ends.  Every pass of its loop advances the iteration
\* counter by one and resets the error counter, or advances the error counter
\* by one and leaves the iteration counter; so what is left of the run gets
\* smaller with every pass and never negative; a pass is made only while the
\* loop condition holds, and the run returns only when the iteration counter
\* has reached max_iter, the accepted counter max_results or the error
\* counter 6.
C33_Terminates == [][PassAdvances /\ ReturnsAtLimit]_vars

\* A run with a finite max_iter in which a pass failed and a later one
\* advanced the iteration counter.
C33_Witness ==
    /\ smp.active
    /\ smp.max_iter # Inf
    /\ smp.steps >= 2
    /\ smp.iteration = smp.pre_iteration + 1
    /\ smp.error_flag = 0

\* RandomLumopt.run is called.
SamplerCalled == ~smp.active /\ smp'.active

\* The records of the Sampler: results and parameters, one of each per record.
Records(m) == <<m.sampling_res, m.sampling_param>>

\* The call starts from zero with reset_counter, and else from where the
\* call before it stopped.
StartsAsAsked ==
    SamplerCalled =>
        IF smp'.reset_counter
        THEN /\ smp'.iteration = 0 /\ smp'.results_num = 0
             /\ Records(smp') = << << >>, << >> >>
        ELSE /\ smp'.iteration = smp.iteration /\ smp'.results_num = smp.results_num
             /\ Records(smp') = Records(smp)

\* A pass keeps the records there are and adds to both lists alike; none is
\* made once the accepted counter meets max_results.
PassAppends ==
    SamplerPass =>
        /\ smp.results_num < smp.max_results
        /\ Len(smp'.sampling_res) = Len(smp'.sampling_param)
        /\ SubSeq(smp'.sampling_res, 1, Len(smp.sampling_res)) = smp.sampling_res
        /\ SubSeq(smp'.sampling_param, 1, Len(smp.sampling_param)) = smp.sampling_param

\* The lists handed back are the records, of equal length, with the accepted
\* counter.
ReturnsRecords ==
    SamplerReturns =>
        /\ Records(smp') = Records(smp)
        /\ Len(smp.sampling_res) = Len(smp.sampling_param)
        /\ last'.ret = smp.results_num
        /\ smp.results_num >= smp.max_results /\ smp.steps = 0 =>
               UNCHANGED <<sample, sample_num, geom>>

\* C34: run(reset_counter=True) starts with both counters 0 and no records;
\* without it the counters and the records are those the call before left, and
\* every pass only adds records, so what is returned is the earlier records
\* followed by the new ones; no pass is made when the accepted counter meets
\* max_results already; the two returned lists have the same length.
C34_Counters == [][StartsAsAsked /\ PassAppends /\ ReturnsRecords]_vars

\* A call without reset_counter, made after a call that completed an
\* iteration, has recorded a refined result in its one pass: two records.
C34_Witness ==
    /\ smp.active
    /\ ~smp.reset_counter
    /\ ~smp.has_global
    /\ smp.pre_iteration = 1
    /\ smp.steps = 1
    /\ smp.pass.refine = "ok"
    /\ Len(smp.sampling_res) = 2

\* C35: in the Sampler the accepted counter never exceeds the iteration
\* counter: a pass that ends in a failure advances neither.
C35_Stated == smp.results_num <= smp.iteration

\* C36: the orchestrator's sampling counters carry over between run_sampling
\* calls unless reset is asked, in which case both start from 0; no Sampler
\* call is made once the accepted counter meets max_results, and such a call
\* returns True and adds no Sample; the iteration counter advances by one on
\* each Sampler call that reports no error and on no other.
SamplingStarts == ~rs.active /\ rs'.active

SamplingPass == rs.active /\ rs'.active

SamplingReturns == rs.active /\ ~rs'.active

SamplingCounters(svc) == <<svc.sampler_iteration, svc.sampler_results_num>>

SamplingStartsAsAsked ==
    SamplingStarts =>
        /\ sample' = sample
        /\ SamplingCounters(service') =
               IF rs'.reset THEN <<0, 0>> ELSE SamplingCounters(service)

SamplingPassCounts ==
    SamplingPass =>
        /\ service.sampler_results_num < rs.max_results
        /\ IF rs'.calls = rs.calls + 1
           THEN /\ SamplingCounters(service') = SamplingCounters(service)
                /\ sample' = sample
           ELSE service'.sampler_iteration = service.sampler_iteration + 1

SamplingReturnsMet ==
    SamplingReturns =>
        /\ sample' = sample
        /\ SamplingCounters(service') = SamplingCounters(service)
        /\ service.sampler_results_num >= rs.max_results =>
               (~last'.raised /\ last'.ret = TRUE)

C36_Counters ==
    [][SamplingStartsAsAsked /\ SamplingPassCounts /\ SamplingReturnsMet]_vars

\* A call without reset whose accepted counter was already above max_results
\* (no pass of the loop leaves it above): it returned True and the store is as
\* it was.
C36_Witness ==
    /\ last.op = "run_sampling"
    /\ ~last.reset
    /\ service.sampler_results_num > last.max_results
    /\ last.ret = TRUE
    /\ last.pairs = << >>
    /\ sample_num = last.pre_num

\* C37: every index in a Map's swept-evaluation list refers to a Sample
\* whose stage tag is "sweeping".
C37_Stated ==
    \A m \in 1 .. Len(maps) :
        \A k \in 1 .. Len(maps[m].sim_idx) :
            sample[maps[m].sim_idx[k] + 1].simulation_name = "sweeping"

\* C38: in every state each training index and each swept-evaluation index of
\* every Map is an index of the Sample Store (at least 0 and below the
\* store's size); a generated mesh has as many full-space points as
\* reduced-space points, and the Map of a sweep on a generated grid holds as
\* many swept-evaluation indices as its reduced-space grid has points.
StoreIndex(i) == i >= 0 /\ i < sample_num /\ sample_num = Len(sample)

StoreIndices(idx) == \A k \in 1 .. Len(idx) : StoreIndex(idx[k])

SweptOnGenerated == SweepSucceeded /\ last.mesh # "given"

FitOn(attr) == attr.state \in {"fitted", "set"} => attr.data = ParametersOf(sample, service.dr_training_index)

C39_Stated ==
    /\ FitOn(dr.scaler)
    /\ FitOn(dr.model)
    /\ FitOn(dr.projected_training_data)

\* C40: a save_data call without a file name never writes over a file that
\* was in the folder before the first save and that the orchestrator did not
\* write itself.
C40_Stated == last.op = "save_data" => (last.existed => last.own)

====
